---------------------------- MODULE Spec2Model ----------------------------
(***************************************************************************)
(* C2P: the text scanner (src/src/text_utils.hpp), the Value Tree          *)
(* (src/include/c2p/value_tree.hpp), the JSON engine (the TextContext      *)
(* revision of json.cpp, src/unnamed/part_005 lines 432-1066) and the INI  *)
(* engine (src/src/ini.cpp).                                               *)
(*                                                                         *)
(* A text is a sequence of characters; a character is a one-character      *)
(* string, or one of the tokens of CharTable for the bytes TLA+ cannot     *)
(* write ("NUL", "BS", "VT", "\\xHH").  Offsets are 0-based as in the code:*)
(* the character at offset p of text is text[p + 1].                       *)
(***************************************************************************)
EXTENDS Integers, Sequences, FiniteSets, TLC

(* ------------------------------ characters ---------------------------- *)

\* The 256 values of a C++ char, by byte value (index = byte + 1).
CharTable ==
  <<
    "NUL", "\\x01", "\\x02", "\\x03", "\\x04", "\\x05", "\\x06", "\\x07",
    "BS", "\t", "\n", "VT", "\f", "\r", "\\x0E", "\\x0F",
    "\\x10", "\\x11", "\\x12", "\\x13", "\\x14", "\\x15", "\\x16", "\\x17",
    "\\x18", "\\x19", "\\x1A", "\\x1B", "\\x1C", "\\x1D", "\\x1E", "\\x1F",
    " ", "!", "\"", "#", "$", "%", "&", "'",
    "(", ")", "*", "+", ",", "-", ".", "/",
    "0", "1", "2", "3", "4", "5", "6", "7",
    "8", "9", ":", ";", "<", "=", ">", "?",
    "@", "A", "B", "C", "D", "E", "F", "G",
    "H", "I", "J", "K", "L", "M", "N", "O",
    "P", "Q", "R", "S", "T", "U", "V", "W",
    "X", "Y", "Z", "[", "\\", "]", "^", "_",
    "\\x60", "a", "b", "c", "d", "e", "f", "g",
    "h", "i", "j", "k", "l", "m", "n", "o",
    "p", "q", "r", "s", "t", "u", "v", "w",
    "x", "y", "z", "{", "|", "}", "~", "\\x7F",
    "\\x80", "\\x81", "\\x82", "\\x83", "\\x84", "\\x85", "\\x86", "\\x87",
    "\\x88", "\\x89", "\\x8A", "\\x8B", "\\x8C", "\\x8D", "\\x8E", "\\x8F",
    "\\x90", "\\x91", "\\x92", "\\x93", "\\x94", "\\x95", "\\x96", "\\x97",
    "\\x98", "\\x99", "\\x9A", "\\x9B", "\\x9C", "\\x9D", "\\x9E", "\\x9F",
    "\\xA0", "\\xA1", "\\xA2", "\\xA3", "\\xA4", "\\xA5", "\\xA6", "\\xA7",
    "\\xA8", "\\xA9", "\\xAA", "\\xAB", "\\xAC", "\\xAD", "\\xAE", "\\xAF",
    "\\xB0", "\\xB1", "\\xB2", "\\xB3", "\\xB4", "\\xB5", "\\xB6", "\\xB7",
    "\\xB8", "\\xB9", "\\xBA", "\\xBB", "\\xBC", "\\xBD", "\\xBE", "\\xBF",
    "\\xC0", "\\xC1", "\\xC2", "\\xC3", "\\xC4", "\\xC5", "\\xC6", "\\xC7",
    "\\xC8", "\\xC9", "\\xCA", "\\xCB", "\\xCC", "\\xCD", "\\xCE", "\\xCF",
    "\\xD0", "\\xD1", "\\xD2", "\\xD3", "\\xD4", "\\xD5", "\\xD6", "\\xD7",
    "\\xD8", "\\xD9", "\\xDA", "\\xDB", "\\xDC", "\\xDD", "\\xDE", "\\xDF",
    "\\xE0", "\\xE1", "\\xE2", "\\xE3", "\\xE4", "\\xE5", "\\xE6", "\\xE7",
    "\\xE8", "\\xE9", "\\xEA", "\\xEB", "\\xEC", "\\xED", "\\xEE", "\\xEF",
    "\\xF0", "\\xF1", "\\xF2", "\\xF3", "\\xF4", "\\xF5", "\\xF6", "\\xF7",
    "\\xF8", "\\xF9", "\\xFA", "\\xFB", "\\xFC", "\\xFD", "\\xFE", "\\xFF"
  >>

\* static_cast<char>(b) for a byte value b.
Chr(b) == CharTable[b + 1]

\* uint8_t(c): the byte value of a character.
OrdTable == [c \in {CharTable[i] : i \in 1..256} |->
               CHOOSE b \in 0..255 : CharTable[b + 1] = c]

Ord(c) == OrdTable[c]

NUL == "NUL"

\* std::isspace in the "C" locale: ' ', \t, \n, \v, \f, \r.
isspace(c) == c \in {" ", "\t", "\n", "VT", "\f", "\r"}

\* std::isdigit.
isdigit(c) == c \in {"0", "1", "2", "3", "4", "5", "6", "7", "8", "9"}

\* std::isxdigit.
isxdigit(c) ==
  isdigit(c) \/ c \in {"a", "b", "c", "d", "e", "f", "A", "B", "C", "D", "E", "F"}

\* The value of a hexadecimal digit, as std::stoul(.., 16) reads it.
hexValue(c) ==
  IF isdigit(c) THEN Ord(c) - Ord("0")
  ELSE IF c \in {"a", "b", "c", "d", "e", "f"} THEN Ord(c) - Ord("a") + 10
  ELSE Ord(c) - Ord("A") + 10

\* uint32_t arithmetic: a difference below zero wraps around to 2^32 + x.  The
\* model checker's integers end at 2^31 - 1, which stands for 2^32 here: a
\* wrapped value is kept as (2^31 - 1) + x, far above every offset of a text.
U32(x) == IF x < 0 THEN 2147483647 + x ELSE x

(* ------------------------------ text scanner -------------------------- *)

\* LineInText.
LineInText(pos, len, lenExcludingBreaks) ==
  [pos |-> pos, len |-> len, lenExcludingBreaks |-> lenExcludingBreaks]

\* The loop of splitLines: i is the 1-based index of the character read.
RECURSIVE splitLinesLoop(_, _, _, _, _, _)
splitLinesLoop(text, i, pos, len, lenExcludingBreaks, lines) ==
  IF i > Len(text)
    THEN IF len > 0
           THEN Append(lines, LineInText(pos, len, lenExcludingBreaks))
           ELSE lines
    ELSE LET c == text[i]
             len1 == len + 1
         IN  IF c = "\n"
               THEN splitLinesLoop(text, i + 1, pos + len1, 0, 0,
                      Append(lines, LineInText(pos, len1, lenExcludingBreaks)))
             ELSE IF c = "\r"
               THEN LET newPos == pos + len1
                        len2 == IF newPos < Len(text) /\ text[newPos + 1] = "\n"
                                  THEN len1 + 1 ELSE len1
                    IN  splitLinesLoop(text, i + 1, pos + len2, 0, 0,
                          Append(lines, LineInText(pos, len2, lenExcludingBreaks)))
             ELSE splitLinesLoop(text, i + 1, pos, len1, lenExcludingBreaks + 1, lines)

splitLines(text) == splitLinesLoop(text, 1, 0, 0, 0, <<>>)

\* TextContext: the text, its line table, and junk, the character an
\* out-of-bounds read (an offset beyond the terminating NUL) happens to find.
TextContext(text, junk) ==
  [text |-> text, lines |-> splitLines(text), junk |-> junk]

\* ctx.text[p]: the terminating NUL at p = size(), undefined beyond it.
charAt(ctx, p) ==
  IF p < Len(ctx.text) THEN ctx.text[p + 1]
  ELSE IF p = Len(ctx.text) THEN NUL
  ELSE ctx.junk

\* PositionInText.
PositionInText(valid, pos, lineIdx, linePos) ==
  [valid |-> valid, pos |-> pos, lineIdx |-> lineIdx, linePos |-> linePos]

StartPosition == PositionInText(TRUE, 0, 0, 0)

\* ctx.lines[pos.lineIdx].
lineOf(ctx, pos) == ctx.lines[pos.lineIdx + 1]

\* The result of a scanner motion: the bool returned and the cursor left.
Moved(ok, pos) == [ok |-> ok, pos |-> pos]

\* moveForward that goes to the next line without counting it.
moveForward_sameLine(ctx, pos) ==
  IF ~pos.valid THEN Moved(FALSE, pos)
  ELSE IF pos.pos + 1 < Len(ctx.text)
    THEN Moved(TRUE, [pos EXCEPT !.linePos = @ + 1, !.pos = @ + 1])
  ELSE Moved(FALSE, [pos EXCEPT !.valid = FALSE])

moveForward(ctx, pos) ==
  IF ~pos.valid THEN Moved(FALSE, pos)
  ELSE IF pos.linePos + 1 < lineOf(ctx, pos).len
    THEN Moved(TRUE, [pos EXCEPT !.linePos = @ + 1, !.pos = @ + 1])
  ELSE IF pos.lineIdx + 1 < Len(ctx.lines)
    THEN Moved(TRUE, [pos EXCEPT !.lineIdx = @ + 1,
                                 !.pos = ctx.lines[pos.lineIdx + 2].pos,
                                 !.linePos = 0])
  ELSE Moved(FALSE, [pos EXCEPT !.valid = FALSE])

RECURSIVE moveForwardBy(_, _, _)
moveForwardBy(ctx, pos, count) ==
  IF count = 0 THEN Moved(TRUE, pos)
  ELSE LET m == moveForward(ctx, pos)
       IN  IF ~m.ok THEN m ELSE moveForwardBy(ctx, m.pos, count - 1)

moveForwardInLine(ctx, pos) ==
  IF ~pos.valid THEN Moved(FALSE, pos)
  ELSE IF pos.linePos + 1 < lineOf(ctx, pos).len
    THEN Moved(TRUE, [pos EXCEPT !.linePos = @ + 1, !.pos = @ + 1])
  ELSE Moved(FALSE, pos)

moveForwardInLineBy(ctx, pos, count) ==
  IF ~pos.valid THEN Moved(FALSE, pos)
  ELSE IF pos.linePos + count < lineOf(ctx, pos).len
    THEN Moved(TRUE, [pos EXCEPT !.linePos = @ + count, !.pos = @ + count])
  ELSE Moved(FALSE, pos)

atLineEnd(ctx, pos) ==
  pos.valid /\ (pos.linePos + 1 = lineOf(ctx, pos).len)

moveToLineStart(ctx, pos) ==
  IF ~pos.valid THEN Moved(FALSE, pos)
  ELSE Moved(TRUE, [pos EXCEPT !.pos = lineOf(ctx, pos).pos, !.linePos = 0])

moveToLineEnd(ctx, pos) ==
  IF ~pos.valid THEN Moved(FALSE, pos)
  ELSE Moved(TRUE, [pos EXCEPT
         !.pos = U32(lineOf(ctx, pos).pos + lineOf(ctx, pos).len - 1),
         !.linePos = U32(lineOf(ctx, pos).len - 1)])

moveToLineEndExcludingBreaks(ctx, pos) ==
  IF ~pos.valid THEN Moved(FALSE, pos)
  ELSE Moved(TRUE, [pos EXCEPT
         !.pos = U32(lineOf(ctx, pos).pos + lineOf(ctx, pos).lenExcludingBreaks - 1),
         !.linePos = U32(lineOf(ctx, pos).lenExcludingBreaks - 1)])

moveToNextLine(ctx, pos) ==
  IF ~pos.valid THEN Moved(FALSE, pos)
  ELSE IF pos.lineIdx + 1 < Len(ctx.lines)
    THEN Moved(TRUE, [pos EXCEPT !.lineIdx = @ + 1,
                                 !.pos = ctx.lines[pos.lineIdx + 2].pos,
                                 !.linePos = 0])
  ELSE Moved(FALSE, [pos EXCEPT !.pos = U32(Len(ctx.text) - 1),
                                !.linePos = U32(lineOf(ctx, pos).len - 1),
                                !.valid = FALSE])

\* The characters at offsets from .. from + len - 1.
charsFrom(ctx, from, len) == [i \in 1..len |-> charAt(ctx, from + i - 1)]

\* slice(start, len).
sliceLen(ctx, start, len) ==
  IF ~start.valid THEN <<>> ELSE charsFrom(ctx, start.pos, len)

\* slice(start, end): with an invalid end, the C string from start.pos up to
\* the terminating NUL.
slice(ctx, start, end) ==
  IF ~start.valid THEN <<>>
  ELSE IF ~end.valid
    THEN IF start.pos <= Len(ctx.text)
           THEN charsFrom(ctx, start.pos, Len(ctx.text) - start.pos)
           ELSE <<ctx.junk>>
  ELSE IF end.pos >= start.pos
    THEN charsFrom(ctx, start.pos, end.pos - start.pos)
  ELSE <<ctx.junk>>

\* unicodeToUtf8.
unicodeToUtf8(codePoint) ==
  IF codePoint <= 127 THEN <<Chr(codePoint)>>
  ELSE IF codePoint <= 2047
    THEN <<Chr(192 + ((codePoint \div 64) % 32)), Chr(128 + (codePoint % 64))>>
  ELSE IF codePoint <= 65535
    THEN <<Chr(224 + ((codePoint \div 4096) % 16)),
           Chr(128 + ((codePoint \div 64) % 64)),
           Chr(128 + (codePoint % 64))>>
  ELSE IF codePoint <= 1114111
    THEN <<Chr(240 + ((codePoint \div 262144) % 8)),
           Chr(128 + ((codePoint \div 4096) % 64)),
           Chr(128 + ((codePoint \div 64) % 64)),
           Chr(128 + (codePoint % 64))>>
  ELSE <<>>

(* ------------------------------ Value Tree ---------------------------- *)

\* NumberValue (double), kept as the decimal (-1)^neg * m * 10^e with m not
\* divisible by 10 (m = 0 has e = 0): equal doubles have equal records.
NumberValue(neg, m, e) == [neg |-> neg, m |-> m, e |-> e]

ZeroNumber == NumberValue(FALSE, 0, 0)

\* ValueNode: the variant Value and its TypeTag.
ValueNode(typeTag, b, n, s) == [typeTag |-> typeTag, b |-> b, n |-> n, s |-> s]

NONE == ValueNode("NONE", FALSE, ZeroNumber, <<>>)

BoolNode(b) == ValueNode("BOOL", b, ZeroNumber, <<>>)

NumberNode(n) == ValueNode("NUMBER", FALSE, n, <<>>)

StringNode(s) == ValueNode("STRING", FALSE, ZeroNumber, s)

\* ValueTree: _state, _value_node, _array_node, _object_node.  An ObjectNode
\* (std::map) is a function from its keys to the subtrees.
EmptyTree ==
  [state |-> "EMPTY", value_node |-> NONE, array_node |-> <<>>, object_node |-> <<>>]

\* ValueTree::isEmpty that finds no tree empty.
isEmpty_never(tree) == FALSE

isEmpty(tree) == tree.state = "EMPTY"

\* clear() that leaves _value_node as it was.
clear_keepingValue(tree) == [EmptyTree EXCEPT !.value_node = tree.value_node]

clear(tree) == EmptyTree

asValue(tree) ==
  IF tree.state # "VALUE" THEN [clear(tree) EXCEPT !.state = "VALUE"] ELSE tree

\* asArray that returns the vector without touching _state.
asArray_keepingState(tree) == tree

asArray(tree) ==
  IF tree.state # "ARRAY" THEN [clear(tree) EXCEPT !.state = "ARRAY"] ELSE tree

asObject(tree) ==
  IF tree.state # "OBJECT" THEN [clear(tree) EXCEPT !.state = "OBJECT"] ELSE tree

\* ValueTree& operator=(const ValueNode&).
assignNode(tree, node) == [asValue(tree) EXCEPT !.value_node = node]

\* ValueTree(const ValueNode&).
ValueTree(node) == assignNode(EmptyTree, node)

\* std::map::operator[]: the map with a default-constructed subtree added
\* under key when there is none.
mapSubscript(object, key) ==
  IF key \in DOMAIN object THEN object ELSE (key :> EmptyTree) @@ object

\* ValueTree::operator[](key): the tree as an object holding key.
treeSubscript(tree, key) ==
  [asObject(tree) EXCEPT !.object_node = mapSubscript(@, key)]

\* The tree with the subtree under key (which it holds) replaced.
withMember(tree, key, sub) == [tree EXCEPT !.object_node[key] = sub]

\* array.push_back(sub).
pushBack(tree, sub) == [tree EXCEPT !.array_node = Append(@, sub)]

\* array.back() = sub.
withBack(tree, sub) == [tree EXCEPT !.array_node[Len(tree.array_node)] = sub]

\* A pointer or a std::optional returned: nullptr (std::nullopt), or what
\* it holds.
nullptr == [found |-> FALSE]

Pointer(target) == [found |-> TRUE, target |-> target]

\* One argument of a path: a key (std::string) or an index (size_t).
Key(key) == [isKey |-> TRUE, key |-> key, index |-> 0]

Index(index) == [isKey |-> FALSE, key |-> <<>>, index |-> index]

\* ValueTree::subTree(const std::string& key).
subTreeKey(tree, key) ==
  IF tree.state # "OBJECT" THEN nullptr
  ELSE IF key \notin DOMAIN tree.object_node THEN nullptr
  ELSE Pointer(tree.object_node[key])

\* ValueTree::subTree(size_t index).
subTreeIndex(tree, index) ==
  IF tree.state # "ARRAY" THEN nullptr
  ELSE IF index >= Len(tree.array_node) THEN nullptr
  ELSE Pointer(tree.array_node[index + 1])

\* ValueTree::subTree(key or index, args...): path is the arguments, one at
\* least.
RECURSIVE subTree(_, _)
subTree(tree, path) ==
  LET first == IF Head(path).isKey THEN subTreeKey(tree, Head(path).key)
               ELSE subTreeIndex(tree, Head(path).index)
  IN  IF Len(path) = 1 \/ ~first.found THEN first
      ELSE subTree(first.target, Tail(path))

\* The tree after the subtree that subTree(path...) points to was given the
\* content sub through the pointer.
RECURSIVE writtenAt(_, _, _)
writtenAt(tree, path, sub) ==
  IF path = <<>> THEN sub
  ELSE IF Head(path).isKey
    THEN [tree EXCEPT !.object_node[Head(path).key] = writtenAt(@, Tail(path), sub)]
  ELSE [tree EXCEPT !.array_node[Head(path).index + 1] = writtenAt(@, Tail(path), sub)]

\* getValue() that returns &_value_node whatever the state.
getValue_anyState(tree) == Pointer(tree.value_node)

\* ValueTree::getValue().
getValue(tree) == IF tree.state = "VALUE" THEN Pointer(tree.value_node) ELSE nullptr

\* ValueTree::getArray().
getArray(tree) == IF tree.state = "ARRAY" THEN Pointer(tree.array_node) ELSE nullptr

\* ValueTree::getObject().
getObject(tree) == IF tree.state = "OBJECT" THEN Pointer(tree.object_node) ELSE nullptr

\* ValueTree::getValue(args...).
getValueAt(tree, path) ==
  LET sub == subTree(tree, path)
  IN  IF ~sub.found THEN nullptr ELSE getValue(sub.target)

\* ValueTree::getArray(args...).
getArrayAt(tree, path) ==
  LET sub == subTree(tree, path)
  IN  IF ~sub.found THEN nullptr ELSE getArray(sub.target)

\* ValueTree::getObject(args...).
getObjectAt(tree, path) ==
  LET sub == subTree(tree, path)
  IN  IF ~sub.found THEN nullptr ELSE getObject(sub.target)

\* ValueNode::value<tag>(): the value held, as a node of that tag.
nodeValue(node, tag) == IF node.typeTag # tag THEN nullptr ELSE Pointer(node)

\* ValueTree::value<typeTag>().
treeValue(tree, typeTag) ==
  IF tree.state # "VALUE" THEN nullptr ELSE nodeValue(tree.value_node, typeTag)

\* ValueTree::value<typeTag>(args...).
treeValueAt(tree, typeTag, path) ==
  LET sub == subTree(tree, path)
  IN  IF ~sub.found THEN nullptr ELSE treeValue(sub.target, typeTag)

(* ------------------------------ parser state -------------------------- *)

\* What a parse call carries along: the cursor, the messages passed to the
\* logger so far, failedAt = the number of messages logged when the first
\* failing assert() was reached (-1: none failed), and thrown = an exception
\* left the call (after it nothing more is logged).
ParserState(pos) == [pos |-> pos, log |-> <<>>, failedAt |-> -1, thrown |-> FALSE]

at(st, pos) == [st EXCEPT !.pos = pos]

\* assert(cond).
expects(st, cond) ==
  IF cond \/ st.failedAt >= 0 THEN st ELSE [st EXCEPT !.failedAt = Len(st.log)]

\* One call of the logger: msg is the first sentence of the text it was
\* given (the hint after it left out), pos the position the text names.
LogEntry(sev, msg, positioned, pos) ==
  [sev |-> sev, msg |-> msg, positioned |-> positioned, pos |-> pos]

\* logger.error(msg).
logError(st, msg) ==
  IF st.thrown THEN st
  ELSE [st EXCEPT !.log = Append(@, LogEntry("error", msg, FALSE, StartPosition))]

\* _logErrorAtPos: getPositionMessage asserts pos.valid, then logger.error.
logErrorAtPos(st, pos, msg) ==
  IF st.thrown THEN st
  ELSE [expects(st, pos.valid) EXCEPT
          !.log = Append(@, LogEntry("error", msg, TRUE, pos))]

\* What a _parseXxx call leaves: the bool returned, the state, the tree.
Parsed(ok, st, tree) == [ok |-> ok, st |-> st, tree |-> tree]

\* What a string-reading call leaves: success, the state, the string.
Read(ok, st, str) == [ok |-> ok, st |-> st, str |-> str]

(* ------------------------------ quoted strings ------------------------ *)

SimpleEscapes == {"\"", "\\", "/", "b", "f", "n", "r", "t"}

\* The character a one-letter escape stands for.
escaped(c) ==
  CASE c = "b" -> "BS"
    [] c = "f" -> "\f"
    [] c = "n" -> "\n"
    [] c = "r" -> "\r"
    [] c = "t" -> "\t"
    [] OTHER -> c

\* std::stoul(digits, nullptr, 16) cast to uint32_t.
RECURSIVE stoul16(_, _)
stoul16(digits, acc) ==
  IF digits = <<>> THEN U32(acc)
  ELSE stoul16(Tail(digits), acc * 16 + hexValue(Head(digits)))

\* The for loop of a Unicode escape: aheadPos moved over count hex digits.
\* why = "end" when the line ends first, "hex" at a character that is none.
RECURSIVE hexAhead(_, _, _)
hexAhead(ctx, aheadPos, count) ==
  IF count = 0 THEN [ok |-> TRUE, why |-> "", pos |-> aheadPos]
  ELSE LET m == moveForwardInLine(ctx, aheadPos)
       IN  IF ~m.ok THEN [ok |-> FALSE, why |-> "end", pos |-> aheadPos]
           ELSE IF ~isxdigit(charAt(ctx, m.pos.pos))
             THEN [ok |-> FALSE, why |-> "hex", pos |-> m.pos]
           ELSE hexAhead(ctx, m.pos, count - 1)

\* The code point of the count hex digits after the letter at pos.
hexCodePoint(ctx, pos, count) ==
  stoul16(sliceLen(ctx, moveForwardInLine(ctx, pos).pos, count), 0)

\* case 'u' / case 'U' after the for loop, which left ahead.
unicodeEscaped(ctx, st, count, result, ahead) ==
  IF ahead.ok
    THEN Read(TRUE, at(st, ahead.pos),
           result \o unicodeToUtf8(hexCodePoint(ctx, st.pos, count)))
  ELSE IF ahead.why = "end"
    THEN Read(FALSE, logErrorAtPos(st, st.pos,
           "Unexpected end of input in Unicode escape."), result)
  ELSE Read(FALSE, logErrorAtPos(st, ahead.pos,
         "Invalid Unicode escape character."), result)

\* case 'u' / case 'U' of the escape switch, the cursor on the letter.
unicodeEscape(ctx, st, count, result) ==
  unicodeEscaped(ctx, st, count, result, hexAhead(ctx, st.pos, count))

\* The while loop of _parseString and of _parseQuotedString: the characters up
\* to the closing quote or the end of the line.
RECURSIVE quotedChars(_, _, _)

\* The loop after a Unicode escape, which left u.
quotedAfterUnicode(ctx, u) ==
  IF ~u.ok THEN u
  ELSE quotedChars(ctx, at(u.st, moveForwardInLine(ctx, u.st.pos).pos), u.str)

\* case '\\' of the loop: the move m onto the character e after the backslash.
quotedEscape(ctx, st, result, m, e) ==
  IF ~m.ok
    THEN Read(FALSE, logErrorAtPos(st, m.pos,
           "Unexpected end of input in string escape."), result)
  ELSE IF e \in SimpleEscapes
    THEN quotedChars(ctx, at(st, moveForwardInLine(ctx, m.pos).pos),
           Append(result, escaped(e)))
  ELSE IF e \in {"u", "U"}
    THEN quotedAfterUnicode(ctx,
           unicodeEscape(ctx, at(st, m.pos), IF e = "u" THEN 4 ELSE 8, result))
  ELSE Read(FALSE, logErrorAtPos(at(st, m.pos), m.pos,
         "Invalid escape character."), result)

\* The escape after the backslash at the cursor.
quotedEscapeAt(ctx, st, result, m) ==
  quotedEscape(ctx, st, result, m, charAt(ctx, m.pos.pos))

\* One pass of the loop, the cursor on the character c.
quotedChar(ctx, st, result, c) ==
  IF c = "\"" \/ atLineEnd(ctx, st.pos) THEN Read(TRUE, st, result)
  ELSE IF c = "\\"
    THEN quotedEscapeAt(ctx, st, result, moveForwardInLine(ctx, st.pos))
  ELSE quotedChars(ctx, at(st, moveForwardInLine(ctx, st.pos).pos),
         Append(result, c))

quotedChars(ctx, st, result) == quotedChar(ctx, st, result, charAt(ctx, st.pos.pos))

(* ------------------------------ JSON parser --------------------------- *)

json_parseWhitespace(ctx, pos) ==
  IF ~pos.valid \/ ~isspace(charAt(ctx, pos.pos)) THEN Moved(FALSE, pos)
  ELSE Moved(TRUE, moveForward(ctx, pos).pos)

\* _parseComment, aheadPos moved one character on.
json_commentAhead(ctx, pos, aheadPos) ==
  IF ~aheadPos.ok \/ charAt(ctx, pos.pos) # "/"
                  \/ charAt(ctx, aheadPos.pos.pos) # "/"
    THEN Moved(FALSE, pos)
    ELSE Moved(TRUE, moveToNextLine(ctx, pos).pos)

\* _parseComment that returns true on "//" and leaves the cursor on it.
json_parseComment_staying(ctx, pos) ==
  Moved(json_commentAhead(ctx, pos, moveForward(ctx, pos)).ok, pos)

json_parseComment(ctx, pos) == json_commentAhead(ctx, pos, moveForward(ctx, pos))

RECURSIVE json_skipWhitespace(_, _)
json_skipWhitespace(ctx, pos) ==
  LET w == json_parseWhitespace(ctx, pos)
      c == json_parseComment(ctx, pos)
  IN  IF w.ok THEN json_skipWhitespace(ctx, w.pos)
      ELSE IF c.ok THEN json_skipWhitespace(ctx, c.pos)
      ELSE pos

\* _parseString after its while loop, which left body.
json_stringRead(ctx, tree, body) ==
  IF ~body.ok THEN Parsed(FALSE, body.st, tree)
  ELSE IF charAt(ctx, body.st.pos.pos) # "\""
    THEN Parsed(FALSE, logErrorAtPos(body.st, body.st.pos,
           "Unterminated string."), tree)
  ELSE Parsed(TRUE, at(body.st, moveForward(ctx, body.st.pos).pos),
         assignNode(tree, StringNode(body.str)))

json_parseString(ctx, st, tree) ==
  LET st1 == expects(expects(st, st.pos.valid), charAt(ctx, st.pos.pos) = "\"")
      leftQuotePos == st.pos
      m == moveForwardInLine(ctx, st.pos)
  IN  IF ~m.ok
        THEN Parsed(FALSE, logErrorAtPos(st1, leftQuotePos,
               "Unterminated quoted string."), tree)
        ELSE json_stringRead(ctx, tree, quotedChars(ctx, at(st1, m.pos), <<>>))

\* The run of digits starting at index i of str ends before this index.
RECURSIVE digitsEnd(_, _)
digitsEnd(str, i) ==
  IF i <= Len(str) /\ isdigit(str[i]) THEN digitsEnd(str, i + 1) ELSE i

\* The value of a string of decimal digits.
RECURSIVE decimal(_, _)
decimal(digits, acc) ==
  IF digits = <<>> THEN acc
  ELSE decimal(Tail(digits), acc * 10 + (Ord(Head(digits)) - Ord("0")))

\* The number of decimal digits of m > 0.
RECURSIVE digitCount(_)
digitCount(m) == IF m < 10 THEN 1 ELSE 1 + digitCount(m \div 10)

RECURSIVE normalized(_, _, _)
normalized(neg, m, e) ==
  IF m = 0 THEN NumberValue(neg, 0, 0)
  ELSE IF m % 10 = 0 THEN normalized(neg, m \div 10, e + 1)
  ELSE NumberValue(neg, m, e)

\* The value of the run of digits starting at index x0 of str.
digitsFrom(str, x0) == decimal(SubSeq(str, x0, digitsEnd(str, x0) - 1), 0)

\* The exponent std::stod reads at index f1 of str, 0 where there is none.
stodExponent(str, f1) ==
  IF ~(f1 <= Len(str) /\ str[f1] \in {"e", "E"}) THEN 0
  ELSE IF f1 + 1 <= Len(str) /\ str[f1 + 1] = "-" THEN 0 - digitsFrom(str, f1 + 2)
  ELSE IF f1 + 1 <= Len(str) /\ str[f1 + 1] = "+" THEN digitsFrom(str, f1 + 2)
  ELSE digitsFrom(str, f1 + 1)

\* std::stod after the fraction digits str[f0 .. f1 - 1], none when f0 = f1.
stodAfterFraction(str, integer, f0, f1) ==
  normalized(str[1] = "-", decimal(integer \o SubSeq(str, f0, f1 - 1), 0),
    stodExponent(str, f1) - (f1 - f0))

\* std::stod after the integer digits str[i0 .. i1 - 1].
stodAfterInteger(str, i0, i1) ==
  IF i1 <= Len(str) /\ str[i1] = "."
    THEN stodAfterFraction(str, SubSeq(str, i0, i1 - 1), i1 + 1,
           digitsEnd(str, i1 + 1))
    ELSE stodAfterFraction(str, SubSeq(str, i0, i1 - 1), i1, i1)

\* std::stod of a text the number grammar accepted.
stod(str) ==
  LET i0 == IF str[1] \in {"+", "-"} THEN 2 ELSE 1
  IN  stodAfterInteger(str, i0, digitsEnd(str, i0))

\* The largest decimal exponent of a finite double, and the smallest of a
\* normal one: std::stod throws std::out_of_range beyond them.
MaxExponent10 == 308

stodThrows(n) ==
  /\ n.m # 0
  /\ \/ digitCount(n.m) - 1 + n.e > MaxExponent10
     \/ digitCount(n.m) - 1 + n.e < 0 - MaxExponent10

\* while (pos.valid && std::isdigit(ctx.text[pos.pos])) ctx.moveForward(pos).
RECURSIVE skipDigits(_, _)
skipDigits(ctx, pos) ==
  IF pos.valid /\ isdigit(charAt(ctx, pos.pos))
    THEN skipDigits(ctx, moveForward(ctx, pos).pos)
    ELSE pos

json_invalidNumber(st1, tree, p) ==
  Parsed(FALSE, logErrorAtPos(at(st1, p), p, "Invalid number."), tree)

\* _parseNumber at its end, the cursor p6 after the last character taken.
json_numberEnd(ctx, st1, tree, startPos, p6) ==
  LET number == stod(slice(ctx, startPos, p6))
  IN  IF stodThrows(number)
        THEN Parsed(FALSE, [at(st1, p6) EXCEPT !.thrown = TRUE], tree)
        ELSE Parsed(TRUE, at(st1, p6), assignNode(tree, NumberNode(number)))

\* _parseNumber after the fraction part, the cursor at p4.
json_numberAfterFraction(ctx, st1, tree, startPos, p4) ==
  LET m5 == moveForward(ctx, p4)
      p5 == IF m5.ok /\ charAt(ctx, m5.pos.pos) \in {"+", "-"}
              THEN moveForward(ctx, m5.pos).pos ELSE m5.pos
  IN  IF ~(p4.valid /\ charAt(ctx, p4.pos) \in {"e", "E"})
        THEN json_numberEnd(ctx, st1, tree, startPos, p4)
      ELSE IF ~p5.valid \/ ~isdigit(charAt(ctx, p5.pos))
        THEN json_invalidNumber(st1, tree, p5)
      ELSE json_numberEnd(ctx, st1, tree, startPos, skipDigits(ctx, p5))

\* _parseNumber after the integer part, the cursor at p2.
json_numberAfterInteger(ctx, st1, tree, startPos, p2) ==
  LET p3 == moveForward(ctx, p2).pos
  IN  IF ~(p2.valid /\ charAt(ctx, p2.pos) = ".")
        THEN json_numberAfterFraction(ctx, st1, tree, startPos, p2)
      ELSE IF ~p3.valid \/ ~isdigit(charAt(ctx, p3.pos))
        THEN json_invalidNumber(st1, tree, p3)
      ELSE json_numberAfterFraction(ctx, st1, tree, startPos, skipDigits(ctx, p3))

\* _parseNumber after the sign, the cursor at p1.
json_numberAfterSign(ctx, st1, tree, startPos, p1) ==
  LET c1 == charAt(ctx, p1.pos)
  IN  IF ~p1.valid THEN json_invalidNumber(st1, tree, p1)
      ELSE IF c1 = "0"
        THEN json_numberAfterInteger(ctx, st1, tree, startPos,
               moveForward(ctx, p1).pos)
      ELSE IF ~isdigit(c1) THEN json_invalidNumber(st1, tree, p1)
      ELSE json_numberAfterInteger(ctx, st1, tree, startPos, skipDigits(ctx, p1))

json_parseNumber(ctx, st, tree) ==
  json_numberAfterSign(ctx, expects(st, st.pos.valid), tree, st.pos,
    IF charAt(ctx, st.pos.pos) \in {"+", "-"}
      THEN moveForward(ctx, st.pos).pos ELSE st.pos)

\* _parseTrue, _parseFalse, _parseNull: the literal word, whose first letter
\* the caller has seen, and the node it stands for.
json_parseLiteral(ctx, st, tree, word, node) ==
  LET st1 == expects(expects(st, st.pos.valid), charAt(ctx, st.pos.pos) = word[1])
  IN  IF sliceLen(ctx, st.pos, Len(word)) # word
        THEN Parsed(FALSE, logErrorAtPos(st1, st.pos, "Invalid value."), tree)
        ELSE Parsed(TRUE, at(st1, moveForwardBy(ctx, st.pos, Len(word)).pos),
               assignNode(tree, node))

json_parseTrue(ctx, st, tree) ==
  json_parseLiteral(ctx, st, tree, <<"t", "r", "u", "e">>, BoolNode(TRUE))

json_parseFalse(ctx, st, tree) ==
  json_parseLiteral(ctx, st, tree, <<"f", "a", "l", "s", "e">>, BoolNode(FALSE))

json_parseNull(ctx, st, tree) ==
  json_parseLiteral(ctx, st, tree, <<"n", "u", "l", "l">>, NONE)

RECURSIVE json_parseValue(_, _, _)

\* The check after a comma of an object: the closing brace may follow it.
json_objectEndsAfterComma(ctx, pos) == pos.valid /\ charAt(ctx, pos.pos) = "}"

RECURSIVE json_objectLoop(_, _, _)

\* A pass of the loop after _parseValue, which left v, took the value of key.
json_objectAfterValue(ctx, tree, object, key, valueStartPos, v) ==
  LET tree2 == [tree EXCEPT !.object_node = [object EXCEPT ![key] = v.tree]]
      afterValuePos == v.st.pos
      p4 == json_skipWhitespace(ctx, afterValuePos)
      p5 == json_skipWhitespace(ctx, moveForward(ctx, p4).pos)
  IN  IF ~v.ok
        THEN Parsed(FALSE, logErrorAtPos(v.st, valueStartPos,
               "Failed to parse object value."), tree2)
      ELSE IF p4.valid /\ charAt(ctx, p4.pos) = "}"
        THEN Parsed(TRUE, at(v.st, moveForward(ctx, p4).pos), tree2)
      ELSE IF ~p4.valid \/ charAt(ctx, p4.pos) # ","
        THEN Parsed(FALSE, logErrorAtPos(at(v.st, p4), afterValuePos,
               "Expected ',' or '}' at the end of object."), tree2)
      ELSE IF json_objectEndsAfterComma(ctx, p5)
        THEN Parsed(TRUE, at(v.st, moveForward(ctx, p5).pos), tree2)
      ELSE json_objectLoop(ctx, at(v.st, p5), tree2)

\* A pass of the loop after _parseString, which left k, took the key.
json_objectAfterKey(ctx, tree, keyStartPos, k) ==
  LET p2 == json_skipWhitespace(ctx, k.st.pos)
      p3 == json_skipWhitespace(ctx, moveForward(ctx, p2).pos)
      key == k.tree.value_node.s
      object == mapSubscript(tree.object_node, key)
  IN  IF ~k.ok
        THEN Parsed(FALSE, logErrorAtPos(k.st, keyStartPos,
               "Failed to parse object key."), tree)
      ELSE IF ~p2.valid \/ charAt(ctx, p2.pos) # ":"
        THEN Parsed(FALSE, logErrorAtPos(at(k.st, p2), p2,
               "Expected ':' in object."), tree)
      ELSE json_objectAfterValue(ctx, tree, object, key, p3,
             json_parseValue(ctx, at(k.st, p3), object[key]))

\* One pass of the while (pos.valid) loop of _parseObject, and the passes
\* after it; tree is the object being filled.
json_objectLoop(ctx, st, tree) ==
  LET p1 == json_skipWhitespace(ctx, st.pos)
  IN  IF ~st.pos.valid
        THEN Parsed(FALSE, logErrorAtPos(st, st.pos, "Unterminated object."), tree)
      ELSE IF charAt(ctx, p1.pos) # "\""
        THEN Parsed(FALSE, logErrorAtPos(at(st, p1), p1,
               "Expected quoted string with '\"' as object key."), tree)
      ELSE json_objectAfterKey(ctx, tree, p1,
             json_parseString(ctx, at(st, p1), EmptyTree))

json_parseObject(ctx, st, tree) ==
  LET st1 == expects(expects(st, st.pos.valid), charAt(ctx, st.pos.pos) = "{")
      object == asObject(tree)
      p1 == json_skipWhitespace(ctx, moveForward(ctx, st.pos).pos)
  IN  IF p1.valid /\ charAt(ctx, p1.pos) = "}"
        THEN Parsed(TRUE, at(st1, moveForward(ctx, p1).pos), object)
        ELSE json_objectLoop(ctx, at(st1, p1), object)

\* The check after a comma of an array: the closing bracket may follow it.
json_arrayEndsAfterComma_never(ctx, pos) == FALSE

json_arrayEndsAfterComma(ctx, pos) == pos.valid /\ charAt(ctx, pos.pos) = "]"

RECURSIVE json_arrayLoop(_, _, _)

\* A pass of the loop after _parseValue, which left v, took the new element.
json_arrayAfterValue(ctx, tree, valueStartPos, v) ==
  LET tree2 == withBack(pushBack(tree, EmptyTree), v.tree)
      p2 == json_skipWhitespace(ctx, v.st.pos)
      p3 == json_skipWhitespace(ctx, moveForward(ctx, p2).pos)
  IN  IF ~v.ok
        THEN Parsed(FALSE, logErrorAtPos(v.st, valueStartPos,
               "Failed to parse array value."), tree2)
      ELSE IF p2.valid /\ charAt(ctx, p2.pos) = "]"
        THEN Parsed(TRUE, at(v.st, moveForward(ctx, p2).pos), tree2)
      ELSE IF ~p2.valid \/ charAt(ctx, p2.pos) # ","
        THEN Parsed(FALSE, logErrorAtPos(at(v.st, p2), p2,
               "Expected ',' or ']' in array."), tree2)
      ELSE IF json_arrayEndsAfterComma(ctx, p3)
        THEN Parsed(TRUE, at(v.st, moveForward(ctx, p3).pos), tree2)
      ELSE json_arrayLoop(ctx, at(v.st, p3), tree2)

\* One pass of the while (pos.valid) loop of _parseArray, and the passes
\* after it; tree is the array being filled.
json_arrayLoop(ctx, st, tree) ==
  LET p1 == json_skipWhitespace(ctx, st.pos)
  IN  IF ~st.pos.valid
        THEN Parsed(FALSE, logErrorAtPos(st, st.pos, "Unterminated array."), tree)
        ELSE json_arrayAfterValue(ctx, tree, p1,
               json_parseValue(ctx, at(st, p1), EmptyTree))

json_parseArray(ctx, st, tree) ==
  LET st1 == expects(expects(st, st.pos.valid), charAt(ctx, st.pos.pos) = "[")
      array == asArray(tree)
      p1 == json_skipWhitespace(ctx, moveForward(ctx, st.pos).pos)
  IN  IF p1.valid /\ charAt(ctx, p1.pos) = "]"
        THEN Parsed(TRUE, at(st1, moveForward(ctx, p1).pos), array)
        ELSE json_arrayLoop(ctx, at(st1, p1), array)

json_parseValue(ctx, st, tree) ==
  LET ch == charAt(ctx, st.pos.pos)
  IN  IF ch = "{" THEN json_parseObject(ctx, st, tree)
      ELSE IF ch = "[" THEN json_parseArray(ctx, st, tree)
      ELSE IF ch = "\"" THEN json_parseString(ctx, st, tree)
      ELSE IF ch = "t" THEN json_parseTrue(ctx, st, tree)
      ELSE IF ch = "f" THEN json_parseFalse(ctx, st, tree)
      ELSE IF ch = "n" THEN json_parseNull(ctx, st, tree)
      ELSE IF ch \in {"+", "-"} \/ isdigit(ch) THEN json_parseNumber(ctx, st, tree)
      ELSE Parsed(FALSE, logErrorAtPos(st, st.pos, "Invalid JSON value."), tree)

\* What a parse call leaves its caller: returned is FALSE when an exception
\* left the call instead; tree is the tree returned; ok is what the top-level
\* _parseValue returned; local is the tree parse had built when it returned;
\* pos is the cursor it stopped at.
Outcome(returned, ok, tree, st, local) ==
  [returned |-> returned, ok |-> ok, tree |-> tree, log |-> st.log,
   failedAt |-> st.failedAt, local |-> local, pos |-> st.pos]

\* json::parse after the top-level _parseValue, which left v.
json_parsed(ctx, v) ==
  LET pos == json_skipWhitespace(ctx, v.st.pos)
  IN  IF v.st.thrown THEN Outcome(FALSE, FALSE, EmptyTree, v.st, v.tree)
      ELSE IF ~v.ok
        THEN Outcome(TRUE, FALSE, EmptyTree,
               logError(v.st, "Failed to parse JSON."), v.tree)
      ELSE IF pos.valid
        THEN Outcome(TRUE, TRUE, v.tree,
               logErrorAtPos(at(v.st, pos), pos, "Extra characters after JSON."),
               v.tree)
      ELSE Outcome(TRUE, TRUE, v.tree, v.st, v.tree)

\* json::parse of the text of ctx.
json_parseText(json, ctx) ==
  IF json = <<>>
    THEN Outcome(TRUE, FALSE, EmptyTree,
           logError(ParserState(StartPosition), "Empty JSON."), EmptyTree)
    ELSE json_parsed(ctx,
           json_parseValue(ctx, ParserState(json_skipWhitespace(ctx, StartPosition)),
             EmptyTree))

\* json::parse.
json_parse(json, junk) == json_parseText(json, TextContext(json, junk))
(* ------------------------------ JSON dumper --------------------------- *)

\* The decimal digits of m >= 0.
RECURSIVE digitsOf(_)
digitsOf(m) ==
  IF m < 10 THEN <<Chr(Ord("0") + m)>>
  ELSE Append(digitsOf(m \div 10), Chr(Ord("0") + (m % 10)))

RECURSIVE pow10(_)
pow10(k) == IF k = 0 THEN 1 ELSE 10 * pow10(k - 1)

\* count copies of the character c.
repeated(c, count) == [i \in 1..count |-> c]

\* The precision of a std::stringstream: the significant digits it writes.
StreamPrecision == 6

\* n rounded to StreamPrecision significant digits (ties to even).
rounded(n) ==
  LET drop == digitCount(n.m) - StreamPrecision
      q == n.m \div pow10(drop)
      rest == n.m % pow10(drop)
      half == 5 * pow10(drop - 1)
      up == rest > half \/ (rest = half /\ q % 2 = 1)
  IN  IF n.m = 0 \/ drop <= 0 THEN n
      ELSE normalized(n.neg, IF up THEN q + 1 ELSE q, n.e + drop)

\* The exponent field of the scientific notation: a sign, two digits at least.
exponentField(x) ==
  LET d == digitsOf(IF x < 0 THEN 0 - x ELSE x)
  IN  <<"e", IF x < 0 THEN "-" ELSE "+">> \o (IF Len(d) < 2 THEN <<"0">> ELSE <<>>) \o d

\* stream << double: the %g conversion with the default precision.
streamDouble(number) ==
  LET n == rounded(number)
      d == digitsOf(n.m)
      x == Len(d) - 1 + n.e
      sign == IF n.neg THEN <<"-">> ELSE <<>>
  IN  IF n.m = 0 THEN sign \o <<"0">>
      ELSE IF x < -4 \/ x >= StreamPrecision
        THEN sign \o <<d[1]>>
             \o (IF Len(d) > 1 THEN <<".">> \o SubSeq(d, 2, Len(d)) ELSE <<>>)
             \o exponentField(x)
      ELSE IF n.e >= 0 THEN sign \o d \o repeated("0", n.e)
      ELSE IF x >= 0
        THEN sign \o SubSeq(d, 1, x + 1) \o <<".">> \o SubSeq(d, x + 2, Len(d))
      ELSE sign \o <<"0", ".">> \o repeated("0", 0 - x - 1) \o d

\* What _escapeString writes for one character.
json_escapeChar(c) ==
  CASE c = "\"" -> <<"\\", "\"">>
    [] c = "\\" -> <<"\\", "\\">>
    [] c = "BS" -> <<"\\", "b">>
    [] c = "\f" -> <<"\\", "f">>
    [] c = "\n" -> <<"\\", "n">>
    [] c = "\r" -> <<"\\", "r">>
    [] c = "\t" -> <<"\\", "t">>
    [] OTHER -> <<c>>

RECURSIVE json_escapeString(_)
json_escapeString(input) ==
  IF input = <<>> THEN <<>>
  ELSE json_escapeChar(Head(input)) \o json_escapeString(Tail(input))

\* A comparison of the bytes as signed char.
RECURSIVE stringLess_signed(_, _)
stringLess_signed(a, b) ==
  IF b = <<>> THEN FALSE
  ELSE IF a = <<>> THEN TRUE
  ELSE IF Head(a) # Head(b)
    THEN (Ord(Head(a)) + 128) % 256 < (Ord(Head(b)) + 128) % 256
  ELSE stringLess_signed(Tail(a), Tail(b))

\* std::string operator<: bytes compared as unsigned char.
RECURSIVE stringLess(_, _)
stringLess(a, b) ==
  IF b = <<>> THEN FALSE
  ELSE IF a = <<>> THEN TRUE
  ELSE IF Head(a) # Head(b) THEN Ord(Head(a)) < Ord(Head(b))
  ELSE stringLess(Tail(a), Tail(b))

\* The keys of a std::map in the order its iteration visits them.
RECURSIVE keysInOrder(_)
keysInOrder(keys) ==
  IF keys = {} THEN <<>>
  ELSE LET first == CHOOSE k \in keys : \A other \in keys \ {k} : stringLess(k, other)
       IN  <<first>> \o keysInOrder(keys \ {first})

\* The case State::VALUE of _dump.
json_dumpNode(node) ==
  CASE node.typeTag = "NONE" -> <<"n", "u", "l", "l">>
    [] node.typeTag = "BOOL" ->
         IF node.b THEN <<"t", "r", "u", "e">> ELSE <<"f", "a", "l", "s", "e">>
    [] node.typeTag = "NUMBER" -> streamDouble(node.n)
    [] node.typeTag = "STRING" -> <<"\"">> \o json_escapeString(node.s) \o <<"\"">>

RECURSIVE json_dumpTree(_, _, _, _)

\* The for loop of the case State::ARRAY: the values from index i on.
RECURSIVE json_dumpValues(_, _, _, _, _, _)
json_dumpValues(array, i, first, pretty, newIndent, indentStep) ==
  IF i > Len(array) THEN <<>>
  ELSE IF isEmpty(array[i])
    THEN json_dumpValues(array, i + 1, first, pretty, newIndent, indentStep)
  ELSE (IF first THEN <<>> ELSE <<",">>)
       \o (IF pretty THEN <<"\n">> \o repeated(" ", newIndent) ELSE <<>>)
       \o json_dumpTree(array[i], pretty, newIndent, indentStep)
       \o json_dumpValues(array, i + 1, FALSE, pretty, newIndent, indentStep)

\* The for loop of the case State::OBJECT: the members keys[i], keys[i+1], ...
\* The pretty branch dumps the key as a string value, the compact branch
\* writes it between quotes as it is.
RECURSIVE json_dumpMembers(_, _, _, _, _, _, _)
json_dumpMembers(object, keys, i, first, pretty, newIndent, indentStep) ==
  IF i > Len(keys) THEN <<>>
  ELSE IF isEmpty(object[keys[i]])
    THEN json_dumpMembers(object, keys, i + 1, first, pretty, newIndent, indentStep)
  ELSE (IF first THEN <<>> ELSE <<",">>)
       \o (IF pretty
             THEN <<"\n">> \o repeated(" ", newIndent)
                  \o json_dumpTree(ValueTree(StringNode(keys[i])), pretty,
                       newIndent, indentStep)
                  \o <<":", " ">>
             ELSE <<"\"">> \o keys[i] \o <<"\"", ":">>)
       \o json_dumpTree(object[keys[i]], pretty, newIndent, indentStep)
       \o json_dumpMembers(object, keys, i + 1, FALSE, pretty, newIndent, indentStep)

\* _dump.
json_dumpTree(tree, pretty, indent, indentStep) ==
  LET newIndent == indent + indentStep
      values == json_dumpValues(tree.array_node, 1, TRUE, pretty, newIndent, indentStep)
      members == json_dumpMembers(tree.object_node,
                   keysInOrder(DOMAIN tree.object_node), 1, TRUE, pretty,
                   newIndent, indentStep)
      closing(empty) ==
        IF pretty /\ ~empty THEN <<"\n">> \o repeated(" ", indent) ELSE <<>>
  IN  CASE tree.state = "EMPTY" -> <<>>
        [] tree.state = "VALUE" -> json_dumpNode(tree.value_node)
        [] tree.state = "ARRAY" ->
             <<"[">> \o values \o closing(values = <<>>) \o <<"]">>
        [] tree.state = "OBJECT" ->
             <<"{">> \o members \o closing(members = <<>>) \o <<"}">>

\* json::dump.
json_dump(tree, pretty, indentStep) == json_dumpTree(tree, pretty, 0, indentStep)

(* ------------------------------ INI parser ---------------------------- *)

\* logger.error(pos.toString() + msg): a message that names a position
\* without drawing it.
logErrorAtLine(st, pos, msg) ==
  [st EXCEPT !.log = Append(@, LogEntry("error", msg, FALSE, pos))]

ini_parseWhitespaceInLine(ctx, pos) ==
  IF atLineEnd(ctx, pos) \/ ~isspace(charAt(ctx, pos.pos)) THEN Moved(FALSE, pos)
  ELSE Moved(TRUE, moveForwardInLine(ctx, pos).pos)

ini_parseCommentInLine(ctx, pos) ==
  IF atLineEnd(ctx, pos) \/ charAt(ctx, pos.pos) \notin {";", "#"}
    THEN Moved(FALSE, pos)
    ELSE Moved(TRUE, moveToLineEnd(ctx, pos).pos)

RECURSIVE ini_skipWhitespaceInLine(_, _)
ini_skipWhitespaceInLine(ctx, pos) ==
  LET w == ini_parseWhitespaceInLine(ctx, pos)
      c == ini_parseCommentInLine(ctx, pos)
  IN  IF w.ok THEN ini_skipWhitespaceInLine(ctx, w.pos)
      ELSE IF c.ok THEN ini_skipWhitespaceInLine(ctx, c.pos)
      ELSE pos

\* _parseQuotedString after its while loop, which left body.
ini_quotedStringRead(ctx, body) ==
  IF ~body.ok THEN Read(FALSE, body.st, <<>>)
  ELSE IF charAt(ctx, body.st.pos.pos) # "\""
    THEN Read(FALSE, logErrorAtPos(body.st, body.st.pos,
           "Unterminated string."), <<>>)
  ELSE Read(TRUE, at(body.st, moveForwardInLine(ctx, body.st.pos).pos), body.str)

ini_parseQuotedString(ctx, st) ==
  LET st1 == expects(expects(st, st.pos.valid), charAt(ctx, st.pos.pos) = "\"")
      leftQuotePos == st.pos
      m == moveForwardInLine(ctx, st.pos)
  IN  IF ~m.ok
        THEN Read(FALSE, logErrorAtPos(st1, leftQuotePos,
               "Unterminated quoted string."), <<>>)
        ELSE ini_quotedStringRead(ctx, quotedChars(ctx, at(st1, m.pos), <<>>))

\* whitespaceStartPos that never leaves the start of the token.
whitespaceStart_never(startPos, whitespaceStartPos, pos, c) == startPos

\* whitespaceStartPos after the character c at pos was looked at.
whitespaceStart(startPos, whitespaceStartPos, pos, c) ==
  IF isspace(c)
    THEN IF whitespaceStartPos.pos = startPos.pos THEN pos ELSE whitespaceStartPos
    ELSE startPos

\* The while (true) loop of _parseNoQuotedHeaderString.
RECURSIVE ini_headerChars(_, _, _, _)
ini_headerChars(ctx, st, startPos, whitespaceStartPos) ==
  LET c == charAt(ctx, st.pos.pos)
  IN  IF c = "]"
        THEN Read(TRUE, st, slice(ctx, startPos,
               IF whitespaceStartPos.pos = startPos.pos THEN st.pos
               ELSE whitespaceStartPos))
      ELSE IF c \in {";", "#"}
        THEN Read(FALSE, logErrorAtPos(st, st.pos,
               "Unexpected comment in section header."), <<>>)
      ELSE IF atLineEnd(ctx, st.pos)
        THEN Read(FALSE, logErrorAtPos(st, st.pos, "No closing bracket found."), <<>>)
      ELSE ini_headerChars(ctx, at(st, moveForwardInLine(ctx, st.pos).pos), startPos,
             whitespaceStart(startPos, whitespaceStartPos, st.pos, c))

ini_parseNoQuotedHeaderString(ctx, st) ==
  ini_headerChars(ctx,
    expects(expects(st, st.pos.valid), ~isspace(charAt(ctx, st.pos.pos))),
    st.pos, st.pos)

\* The while (true) loop of _parseNoQuotedKeyString.
RECURSIVE ini_keyChars(_, _, _, _)
ini_keyChars(ctx, st, startPos, whitespaceStartPos) ==
  LET c == charAt(ctx, st.pos.pos)
  IN  IF c = "="
        THEN IF startPos.pos = st.pos.pos
               THEN Read(FALSE, logErrorAtPos(st, startPos,
                      "Empty key without quotes is not allowed."), <<>>)
               ELSE Read(TRUE, st, slice(ctx, startPos,
                      IF whitespaceStartPos.pos = startPos.pos THEN st.pos
                      ELSE whitespaceStartPos))
      ELSE IF c \in {";", "#"}
        THEN Read(FALSE, logErrorAtPos(st, st.pos, "Unexpected comment in key."), <<>>)
      ELSE IF atLineEnd(ctx, st.pos)
        THEN Read(FALSE, logErrorAtPos(st, st.pos, "No '=' found."), <<>>)
      ELSE ini_keyChars(ctx, at(st, moveForwardInLine(ctx, st.pos).pos), startPos,
             whitespaceStart(startPos, whitespaceStartPos, st.pos, c))

ini_parseNoQuotedKeyString(ctx, st) ==
  ini_keyChars(ctx,
    expects(expects(st, st.pos.valid), ~isspace(charAt(ctx, st.pos.pos))),
    st.pos, st.pos)

\* The while (true) loop of _parseNoQuotedValueString.
RECURSIVE ini_valueChars(_, _, _, _)
ini_valueChars(ctx, st, startPos, whitespaceStartPos) ==
  LET c == charAt(ctx, st.pos.pos)
      ws == whitespaceStart(startPos, whitespaceStartPos, st.pos, c)
      m == moveForwardInLine(ctx, st.pos)
      atEnd == IF ws.pos = startPos.pos THEN [st.pos EXCEPT !.valid = FALSE] ELSE ws
      result(w) ==
        Read(TRUE, st, slice(ctx, startPos,
          IF w.valid /\ w.pos = startPos.pos THEN st.pos ELSE w))
  IN  IF c \in {";", "#"} THEN result(whitespaceStartPos)
      ELSE IF ~m.ok THEN result(atEnd)
      ELSE ini_valueChars(ctx, at(st, m.pos), startPos, ws)

ini_parseNoQuotedValueString(ctx, st) ==
  ini_valueChars(ctx,
    expects(expects(st, st.pos.valid), ~isspace(charAt(ctx, st.pos.pos))),
    st.pos, st.pos)

\* _parseSectionHeader after the header string was parsed, which left header.
ini_sectionHeaderRead(ctx, leftBracketPos, header) ==
  LET endPos == header.st.pos
      p2 == ini_skipWhitespaceInLine(ctx, endPos)
      p3 == ini_skipWhitespaceInLine(ctx, moveForwardInLine(ctx, p2).pos)
  IN  IF ~header.ok
        THEN Read(FALSE, logErrorAtPos(header.st, leftBracketPos,
               "Failed to parse section header."), <<>>)
      ELSE IF charAt(ctx, p2.pos) # "]"
        THEN Read(FALSE, logErrorAtPos(at(header.st, p2), endPos,
               "Unterminated section header. Expected ']'."), <<>>)
      ELSE IF ~atLineEnd(ctx, p3)
        THEN Read(FALSE, logErrorAtPos(at(header.st, p3), p3,
               "Extra characters after section header."), <<>>)
      ELSE Read(TRUE, at(header.st, p3), header.str)

ini_parseSectionHeader(ctx, st) ==
  LET st1 == expects(expects(st, st.pos.valid), charAt(ctx, st.pos.pos) = "[")
      leftBracketPos == st.pos
      m == moveForwardInLine(ctx, st.pos)
      p1 == ini_skipWhitespaceInLine(ctx, m.pos)
  IN  IF ~m.ok
        THEN Read(FALSE, logErrorAtPos(st1, leftBracketPos,
               "Unterminated section header."), <<>>)
      ELSE IF charAt(ctx, p1.pos) = "]"
        THEN Read(FALSE, logErrorAtPos(at(st1, p1), p1,
               "Empty section header without quotes is not allowed."), <<>>)
      ELSE IF atLineEnd(ctx, p1)
        THEN Read(FALSE, logErrorAtPos(at(st1, p1), leftBracketPos,
               "Unterminated section header."), <<>>)
      ELSE ini_sectionHeaderRead(ctx, leftBracketPos,
             IF charAt(ctx, p1.pos) = "\""
               THEN ini_parseQuotedString(ctx, at(st1, p1))
               ELSE ini_parseNoQuotedHeaderString(ctx, at(st1, p1)))

\* What _parseEntry leaves: success, the state, the pair.
Entry(ok, st, key, value) == [ok |-> ok, st |-> st, key |-> key, value |-> value]

\* _parseEntry after the value was parsed, which left value.
ini_entryAfterValue(key, valueStartPos, value) ==
  IF ~value.ok
    THEN Entry(FALSE, logErrorAtPos(value.st, valueStartPos,
           "Failed to parse value."), <<>>, <<>>)
    ELSE Entry(TRUE, value.st, key.str, value.str)

\* _parseEntry after the key was parsed, which left key.
ini_entryAfterKey(ctx, keyStartPos, quotedKey, key) ==
  LET keyEndPos == key.st.pos
      equalPos == IF quotedKey THEN ini_skipWhitespaceInLine(ctx, keyEndPos)
                  ELSE keyEndPos
      m == moveForwardInLine(ctx, equalPos)
      p1 == ini_skipWhitespaceInLine(ctx, m.pos)
  IN  IF ~key.ok
        THEN Entry(FALSE, logErrorAtPos(key.st, keyStartPos, "Failed to parse key."),
               <<>>, <<>>)
      ELSE IF quotedKey /\ charAt(ctx, equalPos.pos) # "="
        THEN Entry(FALSE, logErrorAtPos(at(key.st, equalPos), keyEndPos,
               "Unterminated key. Expected '=' after key."), <<>>, <<>>)
      ELSE IF ~m.ok THEN Entry(TRUE, at(key.st, equalPos), key.str, <<>>)
      ELSE IF atLineEnd(ctx, p1) /\ isspace(charAt(ctx, p1.pos))
        THEN Entry(TRUE, at(key.st, p1), key.str, <<>>)
      ELSE ini_entryAfterValue(key, p1,
             IF charAt(ctx, p1.pos) = "\""
               THEN ini_parseQuotedString(ctx, at(key.st, p1))
               ELSE ini_parseNoQuotedValueString(ctx, at(key.st, p1)))

ini_parseEntry(ctx, st) ==
  LET st1 == expects(expects(st, st.pos.valid), ~isspace(charAt(ctx, st.pos.pos)))
      quotedKey == charAt(ctx, st.pos.pos) = "\""
  IN  ini_entryAfterKey(ctx, st.pos, quotedKey,
        IF quotedKey THEN ini_parseQuotedString(ctx, st1)
        ELSE ini_parseNoQuotedKeyString(ctx, st1))

\* ValueTree* section: the root, or the subtree under header.
RootSection == [root |-> TRUE, header |-> <<>>]

SectionAt(header) == [root |-> FALSE, header |-> header]

\* tree[key] = null.
withEntry_null(tree, key, value) ==
  LET t == treeSubscript(tree, key)
  IN  withMember(t, key, assignNode(t.object_node[key], NONE))

\* tree[key] = value.
withEntry(tree, key, value) ==
  LET t == treeSubscript(tree, key)
  IN  withMember(t, key, assignNode(t.object_node[key], StringNode(value)))

\* section = &(tree[header]); section->asObject().
\* tree[*header] without section->asObject().
withSection_leftEmpty(tree, header) == treeSubscript(tree, header)

withSection(tree, header) ==
  LET t == treeSubscript(tree, header)
  IN  withMember(t, header, asObject(t.object_node[header]))

\* (*section)[key] = value.
withSectionEntry_atRoot(tree, section, key, value) == withEntry(tree, key, value)

withSectionEntry(tree, section, key, value) ==
  IF section.root THEN withEntry(tree, key, value)
  ELSE withMember(tree, section.header,
         withEntry(tree.object_node[section.header], key, value))

\* return ValueTree() after a failed line: local is the tree built so far.
\* return ValueTree() with nothing passed to the logger.
ini_failed_silent(st, local) == Outcome(TRUE, FALSE, EmptyTree, ParserState(st.pos), local)

ini_failed_keepingLines(st, local) == Outcome(TRUE, FALSE, local, st, local)

ini_failed(st, local) == Outcome(TRUE, FALSE, EmptyTree, st, local)

RECURSIVE ini_parseLines(_, _, _, _)

\* while (ctx.moveToNextLine(pos)): the next pass of the loop, or its end.
ini_nextLine(ctx, st, tree, section) ==
  LET m == moveToNextLine(ctx, st.pos)
  IN  IF m.ok THEN ini_parseLines(ctx, at(st, m.pos), tree, section)
      ELSE Outcome(TRUE, TRUE, tree, at(st, m.pos), tree)

\* A pass of the loop after _parseSectionHeader, which left header.
ini_lineAfterHeader(ctx, tree, lineStartPos, header) ==
  IF ~header.ok
    THEN ini_failed(logErrorAtLine(header.st, lineStartPos,
           "Failed to parse section."), tree)
    ELSE ini_nextLine(ctx, header.st, withSection(tree, header.str),
           SectionAt(header.str))

\* A pass of the loop after _parseEntry, which left entry.
ini_lineAfterEntry(ctx, tree, section, lineStartPos, entry) ==
  IF ~entry.ok
    THEN ini_failed(logErrorAtLine(entry.st, lineStartPos,
           "Failed to parse entry."), tree)
    ELSE ini_nextLine(ctx, entry.st,
           withSectionEntry(tree, section, entry.key, entry.value), section)

\* The do ... while (ctx.moveToNextLine(pos)) loop of parse, from the line
\* the cursor is on.
ini_parseLines(ctx, st, tree, section) ==
  LET p1 == ini_skipWhitespaceInLine(ctx, st.pos)
  IN  IF atLineEnd(ctx, p1) /\ isspace(charAt(ctx, p1.pos))
        THEN ini_nextLine(ctx, at(st, p1), tree, section)
      ELSE IF charAt(ctx, p1.pos) = "["
        THEN ini_lineAfterHeader(ctx, tree, p1,
               ini_parseSectionHeader(ctx, at(st, p1)))
      ELSE ini_lineAfterEntry(ctx, tree, section, p1,
             ini_parseEntry(ctx, at(st, p1)))

\* ini::parse.
ini_parse(ini, junk) ==
  IF ini = <<>>
    THEN Outcome(TRUE, FALSE, EmptyTree,
           logError(ParserState(StartPosition), "Empty INI."), EmptyTree)
    ELSE ini_parseLines(TextContext(ini, junk), ParserState(StartPosition),
           EmptyTree, RootSection)

(* ------------------------------ INI dumper ---------------------------- *)

\* The characters _dumpString puts between quotes.
QuotedInIni == {";", "#", "\"", "\\", "BS", "\f", "\n", "\r", "\t"}

\* What the switch of _dumpString appends for one character.
ini_dumpChar(c) == IF c \in {";", "#"} THEN <<c>> ELSE json_escapeChar(c)

RECURSIVE ini_dumpChars(_)
ini_dumpChars(str) ==
  IF str = <<>> THEN <<>> ELSE ini_dumpChar(Head(str)) \o ini_dumpChars(Tail(str))

ini_dumpString(str) ==
  LET needQuote == \E i \in 1..Len(str) : str[i] \in QuotedInIni
  IN  IF str = <<>> THEN <<"\"", "\"">>
      ELSE IF needQuote THEN <<"\"">> \o ini_dumpChars(str) \o <<"\"">>
      ELSE ini_dumpChars(str)

ini_dumpSectionHeader(header) == <<"[">> \o ini_dumpString(header) \o <<"]", "\n">>

ini_dumpEntry(key, node) ==
  ini_dumpString(key) \o <<"=">>
  \o (IF node.typeTag = "STRING" THEN ini_dumpString(node.s) ELSE json_dumpNode(node))
  \o <<"\n">>

\* The entries of one object that are values, in key order from keys[i] on.
RECURSIVE ini_dumpEntries(_, _, _)
ini_dumpEntries(object, keys, i) ==
  IF i > Len(keys) THEN <<>>
  ELSE (IF object[keys[i]].state = "VALUE"
          THEN ini_dumpEntry(keys[i], object[keys[i]].value_node) ELSE <<>>)
       \o ini_dumpEntries(object, keys, i + 1)

\* The second loop of dump: the sections from keys[i] on.
RECURSIVE ini_dumpSections(_, _, _)
ini_dumpSections(object, keys, i) ==
  IF i > Len(keys) THEN <<>>
  ELSE (IF object[keys[i]].state = "OBJECT"
          THEN <<"\n">> \o ini_dumpSectionHeader(keys[i])
               \o ini_dumpEntries(object[keys[i]].object_node,
                    keysInOrder(DOMAIN object[keys[i]].object_node), 1)
          ELSE <<>>)
       \o ini_dumpSections(object, keys, i + 1)

\* ini::dump: the empty string for a tree that is no object, that holds an
\* array, or that holds a section with an entry that is no value.
\* dump that passes over the values it can not write.
ini_dump_skipping(tree) ==
  LET object == tree.object_node
      keys == keysInOrder(DOMAIN object)
  IN  IF tree.state # "OBJECT" THEN <<>>
      ELSE ini_dumpEntries(object, keys, 1) \o ini_dumpSections(object, keys, 1)

ini_dump(tree) ==
  LET object == tree.object_node
      keys == keysInOrder(DOMAIN object)
      unsupported ==
        \E k \in DOMAIN object :
          \/ object[k].state = "ARRAY"
          \/ /\ object[k].state = "OBJECT"
             /\ \E e \in DOMAIN object[k].object_node :
                  object[k].object_node[e].state \in {"ARRAY", "OBJECT"}
  IN  IF tree.state # "OBJECT" \/ unsupported THEN <<>>
      ELSE ini_dumpEntries(object, keys, 1) \o ini_dumpSections(object, keys, 1)

(* ------------------------------ the calls ----------------------------- *)

\* assert() in a build without NDEBUG: the first failing assertion aborts the
\* process, so that the call never returns and logs nothing more.
called(outcome, ndebug) ==
  IF ndebug \/ outcome.failedAt < 0 THEN outcome
  ELSE [outcome EXCEPT !.returned = FALSE, !.ok = FALSE, !.tree = EmptyTree,
                       !.log = SubSeq(@, 1, outcome.failedAt)]

\* No call made yet.
NotCalled ==
  [returned |-> FALSE, ok |-> FALSE, tree |-> EmptyTree, log |-> <<>>,
   failedAt |-> -1, local |-> EmptyTree, pos |-> StartPosition]

\* What the memory after the terminating NUL of a text may hold.
Junk == {"?", " "}

VARIABLES
  api,      \* the engine called: "json" or "ini", "none" when the member
            \* functions of the tree are called
  ndebug,   \* the build defines NDEBUG
  junk,     \* the character found after the terminating NUL of the text
  doc,      \* the lines the INI text was written from (<<>> when from none)
  tree,     \* the tree handed to dump, or the tree whose member functions
            \* are called
  pretty,   \* the pretty flag handed to json::dump
  text,     \* the text handed to parse
  phase,    \* "tree": to be dumped, "text": to be parsed, "parsed", then
            \* "reparsed" or "redumped"
  out,      \* what parse left
  text2,    \* the text with its line breaks rewritten, or the text
            \* json::dump wrote for the parsed tree
  out2,     \* what parse left for text2
  call,     \* the last member function called on the tree, or the last
            \* call made with the cursor
  cursor    \* the PositionInText the scanner calls are made with

vars == <<api, ndebug, junk, doc, tree, pretty, text, phase, out, text2, out2, call, cursor>>

\* The indentStep handed to json::dump.
IndentStep == 2

JsonDump ==
  /\ phase = "tree" /\ api = "json"
  /\ text' = json_dump(tree, pretty, IndentStep)
  /\ phase' = "text"
  /\ UNCHANGED <<api, ndebug, junk, doc, tree, pretty, out, text2, out2, call, cursor>>

IniDump ==
  /\ phase = "tree" /\ api = "ini"
  /\ text' = ini_dump(tree)
  /\ phase' = "text"
  /\ UNCHANGED <<api, ndebug, junk, doc, tree, pretty, out, text2, out2, call, cursor>>

JsonParse ==
  /\ phase = "text" /\ api = "json"
  /\ out' = called(json_parse(text, junk), ndebug)
  /\ phase' = "parsed"
  /\ UNCHANGED <<api, ndebug, junk, doc, tree, pretty, text, text2, out2, call, cursor>>

IniParse ==
  /\ phase = "text" /\ api = "ini"
  /\ out' = called(ini_parse(text, junk), ndebug)
  /\ phase' = "parsed"
  /\ UNCHANGED <<api, ndebug, junk, doc, tree, pretty, text, text2, out2, call, cursor>>

\* json::dump called on the tree json::parse returned.
JsonDumpParsed ==
  /\ phase = "parsed" /\ api = "json" /\ out.returned
  /\ text2' = json_dump(out.tree, pretty, IndentStep)
  /\ phase' = "redumped"
  /\ UNCHANGED <<api, ndebug, junk, doc, tree, pretty, text, out, out2, call, cursor>>

\* text with every "\n" replaced by the characters of lineBreak.
RECURSIVE withLineBreaks(_, _)
withLineBreaks(str, lineBreak) ==
  IF str = <<>> THEN <<>>
  ELSE (IF Head(str) = "\n" THEN lineBreak ELSE <<Head(str)>>)
       \o withLineBreaks(Tail(str), lineBreak)

LineBreaks == {<<"\r", "\n">>, <<"\r">>}

\* The same engine called again on the text written with another line break.
ParseRewritten ==
  /\ phase = "parsed"
  /\ \E lineBreak \in LineBreaks :
       /\ text2' = withLineBreaks(text, lineBreak)
       /\ out2' = called(IF api = "json" THEN json_parse(text2', junk)
                         ELSE ini_parse(text2', junk), ndebug)
  /\ phase' = "reparsed"
  /\ UNCHANGED <<api, ndebug, junk, doc, tree, pretty, text, out, call, cursor>>

\* No member function called yet.
NoCall == [name |-> "none", at |-> <<>>, arg |-> <<>>, before |-> EmptyTree, ret |-> nullptr]

\* The keys, the values and the type tags the member functions are called
\* with, and the size an array is grown to.
TreeKeys == {<<"a">>, <<"b">>}

TreeNodes == {StringNode(<<"s">>)}

TypeTags == {"NONE", "BOOL", "NUMBER", "STRING"}

MaxItems == 2

MaxPath == 2

Steps == {Key(key) : key \in TreeKeys} \cup {Index(index) : index \in 0..(MaxItems - 1)}

\* The paths of at most n steps.
RECURSIVE PathsUpTo(_)
PathsUpTo(n) ==
  IF n = 0 THEN {<<>>}
  ELSE LET shorter == PathsUpTo(n - 1)
       IN  shorter \cup {Append(path, step) : path \in shorter, step \in Steps}

\* The tree itself at the empty path, otherwise what subTree(path...) points
\* to.
nodeAt(t, path) == IF path = <<>> THEN Pointer(t) ELSE subTree(t, path)

\* A member function called on the node at a path that changes it to after:
\* on the tree itself, or on one of its subtrees through subTree(where...).
Changed(name, where, arg, after) ==
  /\ api = "none"
  /\ tree' = writtenAt(tree, where, after)
  /\ call' = [name |-> name, at |-> where, arg |-> arg, before |-> tree, ret |-> nullptr]
  /\ UNCHANGED <<api, ndebug, junk, doc, pretty, text, phase, out, text2, out2, cursor>>

\* node.clear().
Clear ==
  \E where \in PathsUpTo(1) :
    /\ nodeAt(tree, where).found
    /\ Changed("clear", where, <<>>, clear(nodeAt(tree, where).target))

\* node.asValue().
AsValue ==
  \E where \in PathsUpTo(1) :
    /\ nodeAt(tree, where).found
    /\ Changed("asValue", where, <<>>, asValue(nodeAt(tree, where).target))

\* node.asArray().
AsArray ==
  \E where \in PathsUpTo(1) :
    /\ nodeAt(tree, where).found
    /\ Changed("asArray", where, <<>>, asArray(nodeAt(tree, where).target))

\* node.asObject().
AsObject ==
  \E where \in PathsUpTo(1) :
    /\ nodeAt(tree, where).found
    /\ Changed("asObject", where, <<>>, asObject(nodeAt(tree, where).target))

\* node[key].
Subscript ==
  \E where \in PathsUpTo(1), key \in TreeKeys :
    /\ nodeAt(tree, where).found
    /\ Changed("operator[]", where, key, treeSubscript(nodeAt(tree, where).target, key))

\* node = value.
AssignNode ==
  \E where \in PathsUpTo(1), node \in TreeNodes :
    /\ nodeAt(tree, where).found
    /\ Changed("operator=", where, node, assignNode(nodeAt(tree, where).target, node))

\* node.asArray().push_back(ValueTree(value)).
PushBack ==
  \E where \in PathsUpTo(1), node \in TreeNodes :
    /\ nodeAt(tree, where).found
    /\ Len(asArray(nodeAt(tree, where).target).array_node) < MaxItems
    /\ Changed("push_back", where, node,
               pushBack(asArray(nodeAt(tree, where).target), ValueTree(node)))

\* A member function called with a path, as the first call made on the
\* tree, that returns ret.
Looked(name, where, arg, ret) ==
  /\ api = "none" /\ call = NoCall
  /\ call' = [name |-> name, at |-> where, arg |-> arg, before |-> tree, ret |-> ret]
  /\ UNCHANGED <<api, ndebug, junk, doc, tree, pretty, text, phase, out, text2, out2, cursor>>

\* tree.subTree(where...).
SubTree ==
  \E where \in PathsUpTo(MaxPath) \ {<<>>} : Looked("subTree", where, <<>>, subTree(tree, where))

\* tree.getValue(where...).
GetValue ==
  \E where \in PathsUpTo(MaxPath) :
    Looked("getValue", where, <<>>,
           IF where = <<>> THEN getValue(tree) ELSE getValueAt(tree, where))

\* tree.getArray(where...).
GetArray ==
  \E where \in PathsUpTo(MaxPath) :
    Looked("getArray", where, <<>>,
           IF where = <<>> THEN getArray(tree) ELSE getArrayAt(tree, where))

\* tree.getObject(where...).
GetObject ==
  \E where \in PathsUpTo(MaxPath) :
    Looked("getObject", where, <<>>,
           IF where = <<>> THEN getObject(tree) ELSE getObjectAt(tree, where))

\* tree.value<typeTag>(where...).
TypedValue ==
  \E where \in PathsUpTo(MaxPath), typeTag \in TypeTags :
    Looked("value", where, typeTag,
           IF where = <<>> THEN treeValue(tree, typeTag) ELSE treeValueAt(tree, typeTag, where))

\* A call made with the cursor, which it leaves at pos: ret is what it
\* returned, span the offsets of the text it read.
Scanned(name, pos, ret, span) ==
  /\ api = "none" /\ text # <<>>
  /\ cursor' = pos
  /\ call' = [name |-> name, at |-> <<>>, arg |-> span, before |-> cursor, ret |-> ret]
  /\ UNCHANGED <<api, ndebug, junk, doc, tree, pretty, text, phase, out, text2, out2>>

\* A call that moves the cursor and returns whether it did.
Move(name, moved) == Scanned(name, moved.pos, moved.ok, {})

\* ctx.moveForward(pos).
MoveForward == Move("moveForward", moveForward(TextContext(text, junk), cursor))

\* ctx.moveForward(pos, count), count the length of a literal or of an
\* escape.
MoveForwardBy ==
  \E count \in {2, 4, 5} :
    Move("moveForward(count)", moveForwardBy(TextContext(text, junk), cursor, count))

\* ctx.moveForwardInLine(pos).
MoveForwardInLine ==
  Move("moveForwardInLine", moveForwardInLine(TextContext(text, junk), cursor))

\* ctx.moveToLineStart(pos).
MoveToLineStart ==
  Move("moveToLineStart", moveToLineStart(TextContext(text, junk), cursor))

\* ctx.moveToLineEnd(pos).
MoveToLineEnd ==
  Move("moveToLineEnd", moveToLineEnd(TextContext(text, junk), cursor))

\* ctx.moveToLineEndExcludingBreaks(pos).
MoveToLineEndExcludingBreaks ==
  Move("moveToLineEndExcludingBreaks",
       moveToLineEndExcludingBreaks(TextContext(text, junk), cursor))

\* ctx.moveToNextLine(pos).
MoveToNextLine ==
  Move("moveToNextLine", moveToNextLine(TextContext(text, junk), cursor))

\* A call that looks at the character under the cursor when it is valid.
Step(name, moved) ==
  Scanned(name, moved.pos, moved.ok, IF cursor.valid THEN {cursor.pos} ELSE {})

\* _parseWhitespace(ctx, pos), an iteration of _skipWhitespace.
ParseWhitespace ==
  Step("_parseWhitespace", json_parseWhitespace(TextContext(text, junk), cursor))

\* _parseComment(ctx, pos), an iteration of _skipWhitespace.
ParseComment ==
  Step("_parseComment", json_parseComment(TextContext(text, junk), cursor))

\* _parseWhitespaceInLine(ctx, pos), an iteration of _skipWhitespaceInLine.
ParseWhitespaceInLine ==
  /\ cursor.valid
  /\ Step("_parseWhitespaceInLine",
          ini_parseWhitespaceInLine(TextContext(text, junk), cursor))

\* _parseCommentInLine(ctx, pos), an iteration of _skipWhitespaceInLine.
ParseCommentInLine ==
  /\ cursor.valid
  /\ Step("_parseCommentInLine",
          ini_parseCommentInLine(TextContext(text, junk), cursor))

Literals == {<<"t", "r", "u", "e">>, <<"f", "a", "l", "s", "e">>, <<"n", "u", "l", "l">>}

\* _parseTrue, _parseFalse or _parseNull, called by _parseValue on the first
\* character of the word: it takes ctx.slice(pos, length of the word).
ParseLiteral ==
  \E word \in Literals :
    LET ctx == TextContext(text, junk)
        r == json_parseLiteral(ctx, ParserState(cursor), EmptyTree, word, NONE)
    IN  /\ cursor.valid /\ charAt(ctx, cursor.pos) = word[1]
        /\ Scanned("_parseLiteral", r.st.pos, r.ok,
                   cursor.pos..(cursor.pos + Len(word) - 1))
(* ------------------------------ the inputs ---------------------------- *)

\* The texts written with at most n of the given tokens.
RECURSIVE TextsOf(_, _)
TextsOf(tokens, n) ==
  IF n = 0 THEN {<<>>}
  ELSE LET shorter == TextsOf(tokens, n - 1)
       IN  shorter \cup {t \o k : t \in shorter, k \in tokens}

MaxJsonTokens == 5

JsonTokens ==
  {<<"{">>, <<"}">>, <<"[">>, <<"]">>, <<",">>, <<"\"", "a", "\"", ":">>, <<"1">>}

\* The values a duplicated key is given.
DuplicateValues ==
  {<<"1">>, <<"\"", "x", "\"">>, <<"n", "u", "l", "l">>, <<"[", "1", "]">>, <<"[", "2", ",", "3", "]">>, <<"[", "]">>, <<"{", "\"", "b", "\"", ":", "1", "}">>,
   <<"{", "\"", "c", "\"", ":", "2", "}">>, <<"{", "}">>}

DuplicateKeyText(first, last) ==
  <<"{", "\"", "a", "\"", ":">> \o first \o <<",", "\"", "a", "\"", ":">> \o last \o <<"}">>

SingleKeyText(value) == <<"{", "\"", "a", "\"", ":">> \o value \o <<"}">>

TrailingCommasText == <<"{", "\"", "a", "\"", ":", "1", ",", "\"", "b", "\"", ":", "[", "1", ",", "2", ",", "]", ",", "}">>

JsonScenarios ==
  {TrailingCommasText, <<"{", "\"", "a", "\"", ":", "}">>, <<"{", "\"", "a", "\"", ":", "1", ",", "\"", "b", "\"", ":", "}">>, <<"[", "1", ",", "[", "2", ",", "]">>,
   <<"{", "\"", "a", "\"", ":", "1", ",", ",", "}">>, <<"{", "\"", "a", "\"", ":", "{", "\"", "a", "\"", ":", "[", "1", ",", "]", ",", "}", ",", "}">>, <<"[", "1", ",", "2", ",", ",", "]">>, <<"[", "1", "e", "9", "9", "9", "]">>,
   <<"[", "[", "1", ",", "2", "]", ",", "{", "\"", "a", "\"", ":", "t", "r", "u", "}", "]">>, <<"[", "1", " ", ",", " ", "]">>, <<"[", " ", ",", " ", "]">>, <<"{", " ", "\"", "a", "\"", " ", ":", " ", "1", " ", ",", " ", "}">>, <<"[", "1", ",", " ", ",", "]">>,
   <<" ", "[", " ", "]", " ">>, <<"[", ",", "]">>, <<"{", ",", "}">>, <<"[", "1", ",", ",", "]">>, <<"[", "\"", "a", "\\", "u", "0", "0", "e", "9", "\"", ",", "-", "2", ".", "5", "0", "e", "+", "1", ",", "t", "r", "u", "e", ",", "f", "a", "l", "s", "e", ",", "n", "u", "l", "l", "]">>}

JsonTexts ==
  TextsOf(JsonTokens, MaxJsonTokens) \cup JsonScenarios
  \cup {DuplicateKeyText(first, last) : first \in DuplicateValues, last \in DuplicateValues}

MaxIniLen == 4

IniChars == {<<"k">>, <<"=">>, <<" ">>, <<";">>, <<"\n">>, <<"[">>, <<"]">>, <<"\"">>}

IniTexts == TextsOf(IniChars, MaxIniLen)

\* A line of an INI document: what it is, the key or name and the value it
\* is meant to carry, and its characters without the line break.
Line(kind, key, value, chars) ==
  [kind |-> kind, key |-> key, value |-> value, chars |-> chars]

EntryLines ==
  {Line("entry", <<"k">>, <<"v">>, <<"k", "=", "v">>),
   Line("entry", <<"k">>, <<"w">>, <<"k", " ", "=", " ", "w", " ", ";", " ", "c">>),
   Line("entry", <<"j">>, <<"v">>, <<"j", "=", "v">>)}

\* Entries whose '=' is followed by nothing, by blanks, by a comment.
EmptyValueLines ==
  {Line("empty", <<"k">>, <<>>, <<"k", "=">>),
   Line("empty", <<"k">>, <<>>, <<"k", "=", " ">>),
   Line("empty", <<"k">>, <<>>, <<"k", "=", ";", "c">>),
   Line("empty", <<"j">>, <<>>, <<"j", "=", " ", "\t", "#", " ", "c">>)}

HeaderLines ==
  {Line("header", <<"s">>, <<>>, <<"[", "s", "]">>),
   Line("header", <<"k">>, <<>>, <<"[", " ", "k", " ", "]", " ", "#", " ", "c">>)}

BlankLines ==
  {Line("blank", <<>>, <<>>, <<>>),
   Line("blank", <<>>, <<>>, <<" ", "\t">>),
   Line("blank", <<>>, <<>>, <<";", "c">>),
   Line("blank", <<>>, <<>>, <<" ", "#", " ", "c">>)}

Lines == EntryLines \cup EmptyValueLines \cup HeaderLines \cup BlankLines

\* A document: its lines, and whether a line break ends the last of them.
Document(lines, lastBreak) == [lines |-> lines, lastBreak |-> lastBreak]

NoDocument == Document(<<>>, FALSE)

RECURSIVE joined(_)
joined(lines) ==
  IF Len(lines) = 0 THEN <<>>
  ELSE IF Len(lines) = 1 THEN lines[1].chars
  ELSE lines[1].chars \o <<"\n">> \o joined(Tail(lines))

\* The text of a document.
written(document) ==
  joined(document.lines) \o (IF document.lastBreak THEN <<"\n">> ELSE <<>>)

MaxLines == 3

RECURSIVE LineSeqs(_)
LineSeqs(n) ==
  IF n = 0 THEN {<<>>}
  ELSE LET shorter == LineSeqs(n - 1)
       IN  shorter \cup {Append(s, l) : s \in shorter, l \in Lines}

ExampleDocument ==
  Document(<<Line("entry", <<"n", "a", "m", "e">>, <<"J", "o", "h", "n", " ", "D", "o", "e">>, <<"n", "a", "m", "e", "=", "J", "o", "h", "n", " ", "D", "o", "e">>),
             Line("header", <<"s">>, <<>>, <<"[", "s", "]">>),
             Line("entry", <<"k">>, <<"v">>, <<"k", " ", "=", " ", "v", " ", ";", " ", "c">>)>>, FALSE)

\* The documents: every line holds a character, or is ended by a line break.
Documents ==
  {ExampleDocument}
  \cup {d \in {Document(s, b) : s \in LineSeqs(MaxLines) \ {<<>>}, b \in BOOLEAN} :
         d.lastBreak \/ d.lines[Len(d.lines)].chars # <<>>}

ArrayOf(items) == [EmptyTree EXCEPT !.state = "ARRAY", !.array_node = items]

ObjectOf(object) == [EmptyTree EXCEPT !.state = "OBJECT", !.object_node = object]

MaxStringLen == 2

JsonStrings == TextsOf({<<"a">>, <<"\"">>, <<"\\">>, <<"\n">>}, MaxStringLen)

JsonNumbers ==
  {NumberValue(FALSE, 1, 0), NumberValue(TRUE, 25, -1), NumberValue(FALSE, 1234567, 0)}

JsonScalars ==
  {ValueTree(NONE), ValueTree(BoolNode(TRUE)), ValueTree(BoolNode(FALSE))}
  \cup {ValueTree(NumberNode(n)) : n \in JsonNumbers}
  \cup {ValueTree(StringNode(s)) : s \in JsonStrings}

FewScalars ==
  {ValueTree(NONE), ValueTree(NumberNode(NumberValue(FALSE, 1, 0))),
   ValueTree(StringNode(<<"a">>))}

FlatTrees ==
  {ArrayOf(<<>>), ObjectOf(<<>>)}
  \cup {ArrayOf(<<s>>) : s \in JsonScalars}
  \cup {ArrayOf(<<s, t>>) : s \in FewScalars, t \in FewScalars}
  \cup {ObjectOf(k :> s) : k \in JsonStrings, s \in FewScalars}
  \cup {ObjectOf((k :> s) @@ (<<"b">> :> t)) : k \in JsonStrings, s \in FewScalars,
                                           t \in FewScalars}

\* Trees of scalars, lists and maps without an EMPTY child.
JsonTrees ==
  JsonScalars \cup FlatTrees
  \cup {ArrayOf(<<f>>) : f \in FlatTrees}
  \cup {ObjectOf(<<"a">> :> f) : f \in FlatTrees}

IniStrings == TextsOf({<<"a">>, <<" ">>, <<"=">>, <<";">>}, MaxStringLen)

IniScalars ==
  {ValueTree(StringNode(s)) : s \in IniStrings}
  \cup {ValueTree(NONE), ValueTree(BoolNode(TRUE)),
        ValueTree(NumberNode(NumberValue(FALSE, 1, 0)))}

\* Trees of depth at most 2 without a list.
SectionTrees ==
  {ObjectOf(k :> v) : k \in IniStrings, v \in IniScalars}
  \cup {ObjectOf(<<"s">> :> ObjectOf(k :> v)) : k \in {<<"a">>, <<"a", " ">>, <<>>},
                                             v \in IniScalars}
  \cup {ObjectOf((<<"g">> :> v) @@ (<<"s">> :> ObjectOf(<<>>))) : v \in IniScalars}

\* {list: [1, {s: {x: 1}}]}.
ListScenarioTree ==
  ObjectOf(<<"l", "i", "s", "t">> :>
    ArrayOf(<<ValueTree(NumberNode(NumberValue(FALSE, 1, 0))),
              ObjectOf(<<"s">> :> ObjectOf(<<"x">> :>
                ValueTree(NumberNode(NumberValue(FALSE, 1, 0)))))>>))

\* Trees that hold a list.
ListTrees ==
  {ListScenarioTree, ArrayOf(<<>>), ArrayOf(<<ValueTree(StringNode(<<"a">>))>>),
   ObjectOf(<<"l">> :> ArrayOf(<<>>)),
   ObjectOf((<<"g">> :> ValueTree(StringNode(<<"a">>))) @@ (<<"l">> :> ArrayOf(<<>>))),
   ObjectOf(<<"s">> :> ObjectOf(<<"l">> :> ArrayOf(<<ValueTree(NONE)>>)))}

IniTrees == SectionTrees \cup ListTrees

\* Trees that are no map, that hold a section within a section, or a value
\* that can not be written after values that can; and maps with EMPTY
\* members.
OddTrees ==
  {EmptyTree} \cup IniScalars
  \cup {ObjectOf(<<"s">> :> ObjectOf(<<"n">> :> ObjectOf(<<>>))),
        ObjectOf((<<"g">> :> ValueTree(StringNode(<<"a">>)))
                 @@ (<<"s">> :> ObjectOf(<<"k">> :> ValueTree(StringNode(<<"a">>))))
                 @@ (<<"t">> :> ObjectOf(<<"n">> :> ObjectOf(<<"x">> :> ValueTree(NONE))))),
        ObjectOf(<<"s">> :> ObjectOf((<<"a">> :> ValueTree(StringNode(<<"a">>)))
                                   @@ (<<"l">> :> ArrayOf(<<>>)))),
        ObjectOf((<<"e">> :> EmptyTree) @@ (<<"g">> :> ValueTree(StringNode(<<"a">>)))),
        ObjectOf(<<"s">> :> ObjectOf((<<"e">> :> EmptyTree)
                                   @@ (<<"k">> :> ValueTree(StringNode(<<"a">>)))))}

\* What a list or a map built by hand may hold: values, and children left
\* or made EMPTY.
SparseItems ==
  {EmptyTree, ValueTree(NumberNode(NumberValue(FALSE, 1, 0))),
   ValueTree(StringNode(<<"a">>)), ArrayOf(<<EmptyTree>>),
   ObjectOf(<<"a">> :> EmptyTree)}

SparseKeys == {<<"a">>, <<"b">>, <<"c">>}

\* Lists and maps of at most three children, some of them EMPTY.
SparseTrees ==
  {EmptyTree, ArrayOf(<<>>), ObjectOf(<<>>)}
  \cup {ArrayOf(<<s>>) : s \in SparseItems}
  \cup {ArrayOf(<<s, t>>) : s \in SparseItems, t \in SparseItems}
  \cup {ArrayOf(<<s, t, u>>) : s \in SparseItems, t \in SparseItems,
                               u \in SparseItems}
  \cup UNION {{ObjectOf(f) : f \in [keys -> SparseItems]} :
               keys \in (SUBSET SparseKeys) \ {{}}}

\* The keys members are inserted under; the last is U+00E9 in UTF-8.
OrderKeys == {<<"a">>, <<"b">>, <<"a", "b">>, <<"B">>, <<"\\xC3", "\\xA9">>}

MaxKeys == 3

\* The sequences of at most n distinct keys.
RECURSIVE KeySeqs(_)
KeySeqs(n) ==
  IF n = 0 THEN {<<>>}
  ELSE LET shorter == KeySeqs(n - 1)
       IN  shorter \cup UNION {{Append(s, k) : k \in OrderKeys \ {s[i] : i \in 1..Len(s)}} :
                                s \in shorter}

\* The members "key":i written in the given order, i being the place of the
\* key in keys.
RECURSIVE membersText(_, _)
membersText(order, keys) ==
  IF order = <<>> THEN <<>>
  ELSE <<"\"">> \o Head(order) \o <<"\"", ":">>
       \o <<Chr(Ord("0") + (CHOOSE i \in 1..Len(keys) : keys[i] = Head(order)))>>
       \o (IF Len(order) > 1 THEN <<",">> ELSE <<>>)
       \o membersText(Tail(order), keys)

\* The compact text of a map, at the root or under the key k of the root,
\* that holds keys; its members are written in the given order.
MapText(order, keys, nested) ==
  (IF nested THEN <<"{", "\"", "k", "\"", ":">> ELSE <<>>)
  \o <<"{">> \o membersText(order, keys) \o <<"}">>
  \o (IF nested THEN <<"}">> ELSE <<>>)

\* What stands between the brackets of a section header: names, plain and
\* quoted, and the empty headers.
HeaderNames == {<<"s">>, <<" ", "s", " ">>, <<"\"", "s", "\"">>, <<"\"", "\"">>}

EmptyHeaders == {<<>>, <<" ">>, <<" ", " ">>, <<"\t">>}

MaxAfter == 2

\* What follows the closing bracket on the line of a header.
HeaderAfters == TextsOf({<<" ">>, <<"\t">>, <<"x">>, <<";">>, <<"#">>}, MaxAfter)

\* The lines before the header, and what ends its line: the end of the
\* text, a line break, or a line break and an entry.
HeaderLeads == {<<>>, <<"k", "=", "v", "\n">>}

HeaderEndings == {<<>>, <<"\n">>, <<"\n", "k", "=", "v">>}

\* The text of a section header line among other lines.
HeaderText(lead, name, after, ending) ==
  lead \o <<"[">> \o name \o <<"]">> \o after \o ending

MaxBreakTokens == 4

JsonBreakTexts ==
  TextsOf({<<"[">>, <<"]">>, <<"1">>, <<",">>, <<"\"", "a", "\"">>, <<"\n">>}, MaxBreakTokens)

IniBreakTexts == TextsOf({<<"k">>, <<"=">>, <<"v">>, <<";">>, <<"\n">>}, MaxBreakTokens)

(* ------------------------------ specifications ------------------------ *)

\* The state before a call: the build, the memory after the text, and what
\* the caller holds.
Start(engine, document, t, p, txt, ph) ==
  /\ api = engine
  /\ ndebug \in BOOLEAN
  /\ junk \in Junk
  /\ doc = document
  /\ tree = t
  /\ pretty = p
  /\ text = txt
  /\ phase = ph
  /\ out = NotCalled
  /\ text2 = <<>>
  /\ out2 = NotCalled
  /\ call = NoCall
  /\ cursor = StartPosition

\* json::parse called on a text.
Init == \E txt \in JsonTexts : Start("json", NoDocument, EmptyTree, FALSE, txt, "text")

Next == JsonParse

Spec == Init /\ [][Next]_vars

\* ini::parse called on a text.
InitIniText ==
  \E txt \in IniTexts : Start("ini", NoDocument, EmptyTree, FALSE, txt, "text")

NextIni == IniParse

SpecIniText == InitIniText /\ [][NextIni]_vars

\* ini::parse called on the text of a document.
InitIni ==
  \E document \in Documents :
    Start("ini", document, EmptyTree, FALSE, written(document), "text")

SpecIni == InitIni /\ [][NextIni]_vars

\* json::dump called on a tree, json::parse on what it returned.
InitJsonRoundTrip ==
  \E t \in JsonTrees, p \in BOOLEAN : Start("json", NoDocument, t, p, <<>>, "tree")

NextJsonRoundTrip == JsonDump \/ JsonParse

SpecJsonRoundTrip == InitJsonRoundTrip /\ [][NextJsonRoundTrip]_vars

\* ini::dump called on a tree, ini::parse on what it returned.
InitIniRoundTrip ==
  \E t \in IniTrees : Start("ini", NoDocument, t, FALSE, <<>>, "tree")

NextIniRoundTrip == IniDump \/ IniParse

SpecIniRoundTrip == InitIniRoundTrip /\ [][NextIniRoundTrip]_vars

\* A text parsed, then parsed again with its line breaks rewritten.
InitLineBreaks ==
  \/ \E txt \in JsonBreakTexts :
       Start("json", NoDocument, EmptyTree, FALSE, txt, "text")
  \/ \E txt \in IniBreakTexts :
       Start("ini", NoDocument, EmptyTree, FALSE, txt, "text")

NextLineBreaks == JsonParse \/ IniParse \/ ParseRewritten

SpecLineBreaks == InitLineBreaks /\ [][NextLineBreaks]_vars


\* json::dump called on a tree, json::parse on what it returned, json::dump
\* on the tree parsed.
InitJsonRedump ==
  \E t \in JsonTrees \cup SparseTrees, p \in BOOLEAN :
    Start("json", NoDocument, t, p, <<>>, "tree")

NextJsonRedump == JsonDump \/ JsonParse \/ JsonDumpParsed

SpecJsonRedump == InitJsonRedump /\ [][NextJsonRedump]_vars

\* json::parse called on the text of a map whose keys come in some order,
\* json::dump on the tree parsed.
InitJsonKeyOrder ==
  \E keys \in KeySeqs(MaxKeys) \ {<<>>}, nested \in BOOLEAN, p \in BOOLEAN :
    Start("json", NoDocument, EmptyTree, p, MapText(keys, keys, nested), "text")

NextJsonKeyOrder == JsonParse \/ JsonDumpParsed

SpecJsonKeyOrder == InitJsonKeyOrder /\ [][NextJsonKeyOrder]_vars

\* The member functions called, in any order and on any of its nodes, on a
\* tree that was default-constructed.
InitValueTree ==
  /\ Start("none", NoDocument, EmptyTree, FALSE, <<>>, "tree")
  /\ ndebug /\ junk = " "

NextValueTree ==
  Clear \/ AsValue \/ AsArray \/ AsObject \/ Subscript \/ AssignNode \/ PushBack

SpecValueTree == InitValueTree /\ [][NextValueTree]_vars

\* The trees the lookups are made in: values of every type, and arrays and
\* objects of them two levels deep.
LookupLeaves ==
  {EmptyTree, ValueTree(NONE), ValueTree(BoolNode(TRUE)),
   ValueTree(NumberNode(NumberValue(FALSE, 1, 0))), ValueTree(StringNode(<<"s">>))}

LookupBranches ==
  LookupLeaves \cup {ArrayOf(<<>>), ObjectOf(<<>>)}
  \cup {ArrayOf(<<leaf>>) : leaf \in LookupLeaves}
  \cup {ObjectOf(<<"a">> :> leaf) : leaf \in LookupLeaves}

LookupTrees ==
  LookupBranches
  \cup {ArrayOf(<<branch>>) : branch \in LookupBranches}
  \cup {ArrayOf(<<leaf, branch>>) : leaf \in LookupLeaves, branch \in LookupBranches}
  \cup {ObjectOf(<<"b">> :> branch) : branch \in LookupBranches}
  \cup {ObjectOf(<<"a">> :> leaf @@ <<"b">> :> branch) :
          leaf \in LookupLeaves, branch \in LookupBranches}

\* The lookups made, in any order, in a tree.
InitLookup ==
  /\ \E t \in LookupTrees : Start("none", NoDocument, t, FALSE, <<>>, "tree")
  /\ ndebug /\ junk = " "

NextLookup == SubTree \/ GetValue \/ GetArray \/ GetObject \/ TypedValue

SpecLookup == InitLookup /\ [][NextLookup]_vars

\* ini::parse called on a text that holds one section header line.
InitIniHeader ==
  \E lead \in HeaderLeads, name \in HeaderNames \cup EmptyHeaders,
     after \in HeaderAfters, ending \in HeaderEndings :
    Start("ini", NoDocument, EmptyTree, FALSE, HeaderText(lead, name, after, ending), "text")

SpecIniHeader == InitIniHeader /\ [][NextIni]_vars

\* ini::dump called on a tree, one it can write or not.
InitIniDump ==
  \E t \in IniTrees \cup OddTrees : Start("ini", NoDocument, t, FALSE, <<>>, "tree")

NextIniDump == IniDump

SpecIniDump == InitIniDump /\ [][NextIniDump]_vars

MaxScanLen == 4

\* The texts the scanner calls are made on: lines of one character kind
\* ended by either line break, and the separators of the two grammars.
ScanTexts ==
  (TextsOf({<<"a">>, <<"\r">>, <<"\n">>}, MaxScanLen)
   \cup TextsOf({<<" ">>, <<"/">>, <<";">>, <<"\n">>}, MaxScanLen)
   \cup {<<"t">>, <<"t", "r">>, <<"t", "r", "u", "e">>, <<"[", "t">>, <<"f", "a", "l", "s">>, <<"f", "a", "l", "s", "e">>, <<"n", "u", "l">>, <<"n", "u", "l", "l">>})
  \ {<<>>}

\* The scanner calls made, in any order, with a cursor that starts where
\* parse starts it.
InitScanner ==
  /\ \E txt \in ScanTexts : Start("none", NoDocument, EmptyTree, FALSE, txt, "text")
  /\ ndebug

NextScanner ==
  \/ MoveForward \/ MoveForwardBy \/ MoveForwardInLine \/ MoveToLineStart
  \/ MoveToLineEnd \/ MoveToLineEndExcludingBreaks \/ MoveToNextLine

SpecScanner == InitScanner /\ [][NextScanner]_vars

\* moveForward called again and again from where parse starts the cursor.
NextAdvance == MoveForward \/ MoveForwardBy

SpecAdvance == InitScanner /\ [][NextAdvance]_vars

MaxBlanks == 2

\* The blanks around a token.
Blanks == TextsOf({<<" ">>, <<"\t">>}, MaxBlanks)

\* Unquoted tokens: no blank at either end, blanks inside.
Tokens == {<<"a">>, <<"a", " ", "a">>, <<"a", " ", " ", "a">>, <<"a", "\t", "a">>}

TokenComments == {<<>>, <<";", "c">>, <<"#">>}

\* A line that holds one entry or one section header written without
\* quotes, with blanks before what ends each token.
TokenLines ==
  {Line("entry", key, value, key \o kb \o <<"=">> \o lead \o value \o vb \o comment) :
     key \in Tokens, value \in Tokens \ {<<"a", " ", " ", "a">>}, kb \in Blanks, vb \in Blanks,
     lead \in {<<>>, <<" ">>}, comment \in TokenComments}
  \cup {Line("header", name, <<>>, <<"[">> \o lead \o name \o nb \o <<"]">> \o comment) :
     name \in Tokens, nb \in Blanks, lead \in {<<>>, <<" ">>}, comment \in TokenComments}

InitIniTokens ==
  \E line \in TokenLines, lastBreak \in BOOLEAN :
    Start("ini", Document(<<line>>, lastBreak), EmptyTree, FALSE,
          written(Document(<<line>>, lastBreak)), "text")

SpecIniTokens == InitIniTokens /\ [][NextIni]_vars

\* The calls the scanning loops of the two parsers make, one at a time.
NextSteps ==
  \/ MoveForward \/ MoveForwardInLine \/ MoveToNextLine
  \/ ParseWhitespace \/ ParseComment
  \/ ParseWhitespaceInLine \/ ParseCommentInLine
  \/ ParseLiteral

SpecSteps == InitScanner /\ [][NextSteps]_vars

\* Either parser called once on a text.
InitParse == Init \/ InitIniText

NextParse == JsonParse \/ IniParse

SpecParse == InitParse /\ [][NextParse]_vars

\* ini::parse called once, on a text of a few characters or on a document
\* of a few lines.
InitIniAny == InitIniText \/ InitIni

SpecIniAny == InitIniAny /\ [][NextIni]_vars
(* ------------------------------ properties ---------------------------- *)

\* C1: on every input on which json::parse detects a failure, the call
\* reports an error and returns a tree in state EMPTY.
C1_FailureReportedAndEmpty ==
  phase = "parsed" /\ api = "json" /\ ~out.ok
    => out.returned /\ out.tree = EmptyTree /\ out.log # <<>>

\* C2: when ini::parse fails on a line, it returns a tree in state EMPTY,
\* whatever the lines before it put into the tree.
C2_FailedIniParseIsEmpty ==
  phase = "parsed" /\ api = "ini" /\ ~out.ok
    => out.returned /\ out.tree = EmptyTree

\* A line failed after earlier lines had filled the tree.
C2_Witness ==
  /\ phase = "parsed" /\ api = "ini" /\ ~out.ok /\ out.returned
  /\ out.local.state = "OBJECT" /\ DOMAIN out.local.object_node # {}
  /\ out.tree = EmptyTree

\* C3: json::parse of what json::dump wrote for a tree without EMPTY
\* children gives the tree back, in compact and in pretty mode.
C3_JsonRoundTrip ==
  phase = "parsed" /\ api = "json" /\ tree \in JsonTrees
    => out.returned /\ out.ok /\ out.tree = tree

\* A scalar read back from an INI text is the string it was written as.
writtenAs(node) == IF node.typeTag = "STRING" THEN node.s ELSE json_dumpNode(node)

\* b is a, with every scalar replaced by the string it is written as.
RECURSIVE iniEquivalent(_, _)
iniEquivalent(a, b) ==
  /\ a.state = b.state
  /\ a.state = "VALUE" => b.value_node = StringNode(writtenAs(a.value_node))
  /\ a.state = "OBJECT" =>
       /\ DOMAIN a.object_node = DOMAIN b.object_node
       /\ \A k \in DOMAIN a.object_node :
            iniEquivalent(a.object_node[k], b.object_node[k])

\* C4: ini::parse of what ini::dump wrote for a tree of depth at most 2
\* without a list gives an equivalent tree; for a tree that holds a list,
\* ini::dump writes the empty string and ini::parse of it gives EMPTY.
C4_IniRoundTrip ==
  phase = "parsed" /\ api = "ini" /\ tree \in IniTrees
    => /\ tree \in SectionTrees => out.returned /\ out.ok /\ iniEquivalent(tree, out.tree)
       /\ tree \in ListTrees => text = <<>> /\ out.returned /\ out.tree = EmptyTree

\* C5: a text written with "\r\n" or "\r" for its "\n" line breaks parses
\* to the same outcome: the same success or failure and an equal tree.
C5_LineBreaksAlike ==
  phase = "reparsed"
    => out2.ok = out.ok /\ out2.tree = out.tree

\* C6: after a successful parse of an object that holds a key twice, the
\* value under the key is the value of the last occurrence alone.
C6_LastDuplicateWins ==
  \A first \in DuplicateValues, last \in DuplicateValues :
    /\ phase = "parsed" /\ api = "json" /\ text = DuplicateKeyText(first, last)
    /\ out.returned /\ out.ok
    => out.tree = json_parse(SingleKeyText(last), junk).tree

\* The header line that line i stands under (0: it stands under none).
headerOf(lines, i) ==
  LET before == {j \in 1..(i - 1) : lines[j].kind = "header"}
  IN  IF before = {} THEN 0 ELSE CHOOSE j \in before : \A h \in before : h <= j

\* The entry lines before the first header (atRoot), or under the headers
\* that carry the given name.
entriesUnder(lines, atRoot, name) ==
  {i \in 1..Len(lines) :
     /\ lines[i].kind \in {"entry", "empty"}
     /\ IF atRoot THEN headerOf(lines, i) = 0
        ELSE headerOf(lines, i) # 0 /\ lines[headerOf(lines, i)].key = name}

\* Each key of the given entry lines with the value of its last line.
lastValues(lines, entries) ==
  [k \in {lines[i].key : i \in entries} |->
     LET last == CHOOSE i \in entries :
                   lines[i].key = k /\ \A j \in entries : lines[j].key = k => j <= i
     IN  ValueTree(StringNode(lines[last].value))]

\* The tree the lines of a document describe: the entries before the first
\* header at the root, a map for every header name, the other entries in the
\* map of the header they stand under.
sectioned(lines) ==
  LET names == {lines[i].key : i \in {j \in 1..Len(lines) : lines[j].kind = "header"}}
      atRoot == lastValues(lines, entriesUnder(lines, TRUE, <<>>))
  IN  ObjectOf([k \in DOMAIN atRoot \cup names |->
        IF k \in names THEN ObjectOf(lastValues(lines, entriesUnder(lines, FALSE, k)))
        ELSE atRoot[k]])

kindsOf(lines) == {lines[i].kind : i \in 1..Len(lines)}

\* C7: entries before the first header go to the root, a header makes
\* tree[name], coerced to a map, the current section, later entries go
\* under it, and a key given twice in a section keeps its last value.
C7_SectionsAndEntries ==
  phase = "parsed" /\ api = "ini" /\ doc.lines # <<>>
  /\ kindsOf(doc.lines) \subseteq {"entry", "header"}
    => out.returned /\ out.ok /\ out.tree = sectioned(doc.lines)

\* name=John Doe, [s], k = v ; c  parsed to  {name: "John Doe", s: {k: "v"}}.
C7_Witness ==
  /\ phase = "parsed" /\ doc = ExampleDocument /\ out.ok
  /\ out.tree = ObjectOf((<<"n", "a", "m", "e">> :> ValueTree(StringNode(<<"J", "o", "h", "n", " ", "D", "o", "e">>)))
                   @@ (<<"s">> :> ObjectOf(<<"k">> :> ValueTree(StringNode(<<"v">>)))))

\* The lines that are not blank, in their order.
RECURSIVE withoutBlanks(_)
withoutBlanks(lines) ==
  IF lines = <<>> THEN <<>>
  ELSE (IF Head(lines).kind = "blank" THEN <<>> ELSE <<Head(lines)>>)
       \o withoutBlanks(Tail(lines))

\* The document without its blank and comment-only lines; the lines kept
\* are ended as they were.
skipped(document) ==
  Document(withoutBlanks(document.lines),
    document.lastBreak \/ document.lines[Len(document.lines)].kind = "blank")

\* C8: a line of blanks and/or a comment adds nothing to the tree and does
\* not make ini::parse fail, wherever it stands: the outcome is the one of
\* the document without these lines.
C8_BlankLinesSkipped ==
  phase = "parsed" /\ api = "ini" /\ doc.lines # <<>>
  /\ "blank" \in kindsOf(doc.lines)
    => IF skipped(doc).lines = <<>>
         THEN out.returned /\ out.ok /\ out.tree = EmptyTree /\ out.log = <<>>
         ELSE LET r == called(ini_parse(written(skipped(doc)), junk), ndebug)
              IN  out.returned = r.returned /\ out.ok = r.ok /\ out.tree = r.tree

\* C9: an entry line whose '=' is followed by nothing, by blanks, or by
\* blanks and a comment gives the empty string, on every line.
C9_EmptyValues ==
  phase = "parsed" /\ api = "ini" /\ doc.lines # <<>>
  /\ "empty" \in kindsOf(doc.lines) /\ "blank" \notin kindsOf(doc.lines)
    => out.returned /\ out.ok /\ out.tree = sectioned(doc.lines)

\* The last offset before i, or the first after i, that holds no blank
\* (0 and Len(str) + 1 when there is none).
solidBefore(str, i) ==
  LET solid == {j \in 1..(i - 1) : str[j] # " "}
  IN  IF solid = {} THEN 0 ELSE CHOOSE j \in solid : \A h \in solid : h <= j

solidAfter(str, i) ==
  LET solid == {j \in (i + 1)..Len(str) : str[j] # " "}
  IN  IF solid = {} THEN Len(str) + 1 ELSE CHOOSE j \in solid : \A h \in solid : j <= h

\* The comma at i follows an element: not an opening delimiter, a colon,
\* another comma, or nothing.
followsElement(str, i) ==
  solidBefore(str, i) # 0 /\ str[solidBefore(str, i)] \notin {"[", "{", ",", ":"}

\* The commas that follow an element and stand before a closing delimiter.
trailingCommas(str) ==
  {i \in 1..Len(str) :
     /\ str[i] = "," /\ followsElement(str, i)
     /\ solidAfter(str, i) <= Len(str) /\ str[solidAfter(str, i)] \in {"]", "}"}}

without(str, i) == SubSeq(str, 1, i - 1) \o SubSeq(str, i + 1, Len(str))

\* The characters of the text that the value parsed takes.
taken(str, outcome) ==
  IF outcome.pos.valid THEN SubSeq(str, 1, outcome.pos.pos) ELSE str

\* C10: one trailing comma before the closing delimiter of a non-empty
\* array or object changes nothing of the outcome, and no value is accepted
\* that holds a comma after no element or two commas in a row.
C10_TrailingComma ==
  phase = "parsed" /\ api = "json"
    => /\ \A i \in trailingCommas(text) :
            LET r == called(json_parse(without(text, i), junk), ndebug)
            IN  out.returned = r.returned /\ out.ok = r.ok /\ out.tree = r.tree
       /\ out.ok =>
            \A i \in 1..Len(taken(text, out)) :
              text[i] = "," => followsElement(text, i)
       /\ text \in {<<"[", ",", "]">>, <<"{", ",", "}">>, <<"[", "1", ",", ",", "]">>} => ~out.ok

\* {"a":1,"b":[1,2,],} parsed to {a: 1, b: [1, 2]}.
C10_Witness ==
  /\ phase = "parsed" /\ text = TrailingCommasText /\ out.ok
  /\ out.tree = ObjectOf(
       (<<"a">> :> ValueTree(NumberNode(NumberValue(FALSE, 1, 0))))
       @@ (<<"b">> :> ArrayOf(<<ValueTree(NumberNode(NumberValue(FALSE, 1, 0))),
                               ValueTree(NumberNode(NumberValue(FALSE, 2, 0)))>>)))


\* C11: when characters other than separators remain after the top-level
\* value, json::parse returns the parsed tree (not EMPTY) and reports the
\* condition through the warning callback, not through the error callback.
C11_TrailingCharactersWarned ==
  phase = "parsed" /\ api = "json" /\ out.returned /\ out.ok /\ out.pos.valid
    => /\ out.tree # EmptyTree
       /\ \E i \in 1..Len(out.log) : out.log[i].sev = "warning"
       /\ \A i \in 1..Len(out.log) : out.log[i].sev # "error"

\* No node of the tree is in state EMPTY.
RECURSIVE noEmptyNode(_)
noEmptyNode(t) ==
  /\ t.state # "EMPTY"
  /\ t.state = "ARRAY" => \A i \in 1..Len(t.array_node) : noEmptyNode(t.array_node[i])
  /\ t.state = "OBJECT" => \A k \in DOMAIN t.object_node : noEmptyNode(t.object_node[k])

\* C12: whenever json::parse succeeds, the root and every descendant are in
\* state VALUE, ARRAY or OBJECT, never EMPTY; {} gives an OBJECT without
\* children and [] an ARRAY without children.
C12_ParsedNodesNotEmpty ==
  phase = "parsed" /\ api = "json" /\ out.returned /\ out.ok
    => /\ noEmptyNode(out.tree)
       /\ text = <<"{", "}">> => out.tree = ObjectOf(<<>>)
       /\ text = <<"[", "]">> => out.tree = ArrayOf(<<>>)

\* [{}] parsed to a list that holds a map without children.
C12_Witness ==
  /\ phase = "parsed" /\ api = "json" /\ text = <<"[", "{", "}", "]">>
  /\ out.returned /\ out.ok /\ out.tree = ArrayOf(<<ObjectOf(<<>>)>>)

\* C13: for every tree t, with d1 the compact json::dump of t, the compact
\* json::dump of json::parse(d1) is d1, byte for byte.
C13_DumpParseDump ==
  /\ phase = "parsed" /\ api = "json" /\ ~pretty => out.returned
  /\ phase = "redumped" /\ ~pretty => text2 = text

\* The tree without its EMPTY members, at every depth.
RECURSIVE pruned(_)
RECURSIVE prunedItems(_)
prunedItems(items) ==
  IF items = <<>> THEN <<>>
  ELSE (IF Head(items).state = "EMPTY" THEN <<>> ELSE <<pruned(Head(items))>>)
       \o prunedItems(Tail(items))

pruned(t) ==
  CASE t.state = "ARRAY" -> ArrayOf(prunedItems(t.array_node))
    [] t.state = "OBJECT" ->
         ObjectOf([k \in {m \in DOMAIN t.object_node : t.object_node[m].state # "EMPTY"}
                     |-> pruned(t.object_node[k])])
    [] OTHER -> t

\* The text without the blanks and line breaks the pretty mode inserts.
RECURSIVE unspaced(_)
unspaced(str) ==
  IF str = <<>> THEN <<>>
  ELSE (IF Head(str) \in {" ", "\n"} THEN <<>> ELSE <<Head(str)>>)
       \o unspaced(Tail(str))

\* A key without a value, two adjacent commas, or a comma next to a bracket.
gapAt(str, i) ==
  \/ str[i] = "," /\ str[i + 1] \in {",", "]", "}"}
  \/ str[i] \in {"[", "{"} /\ str[i + 1] = ","
  \/ str[i] = ":" /\ str[i + 1] \in {",", "]", "}"}

\* A list or map that holds members, all of them EMPTY.
holdsOnlyEmpty(t) ==
  \/ /\ t.state = "ARRAY" /\ t.array_node # <<>>
     /\ \A i \in 1..Len(t.array_node) : t.array_node[i].state = "EMPTY"
  \/ /\ t.state = "OBJECT" /\ DOMAIN t.object_node # {}
     /\ \A k \in DOMAIN t.object_node : t.object_node[k].state = "EMPTY"

\* C14: json::dump writes nothing for an EMPTY root and leaves out every
\* EMPTY member of a list or map with its key and its comma, in both modes:
\* the text is the one written for the tree without those members, it holds
\* no key without a value, no two adjacent commas and no comma next to a
\* bracket, and a container whose members are all EMPTY is written [] or {}.
C14_EmptyMembersOmitted ==
  phase = "text" /\ api = "json"
    => /\ text = json_dump(pruned(tree), pretty, IndentStep)
       /\ tree.state = "EMPTY" => text = <<>>
       /\ \A i \in 1..(Len(unspaced(text)) - 1) : ~gapAt(unspaced(text), i)
       /\ holdsOnlyEmpty(tree)
            => text = IF tree.state = "ARRAY" THEN <<"[", "]">> ELSE <<"{", "}">>

\* {a: EMPTY, b: 1, c: EMPTY} written in pretty mode.
C14_Witness ==
  /\ phase = "text" /\ api = "json" /\ pretty
  /\ tree = ObjectOf((<<"a">> :> EmptyTree)
              @@ (<<"b">> :> ValueTree(NumberNode(NumberValue(FALSE, 1, 0))))
              @@ (<<"c">> :> EmptyTree))
  /\ text = <<"{", "\n", " ", " ", "\"", "b", "\"", ":", " ", "1", "\n", "}">>

\* The key a comes before the key b when their bytes are compared as
\* unsigned values, a shorter key before the keys it begins.
keyBefore(a, b) ==
  \E i \in 1..Len(b) :
    /\ i <= Len(a) + 1
    /\ \A j \in 1..(i - 1) : a[j] = b[j]
    /\ i <= Len(a) => Ord(a[i]) < Ord(b[i])

\* The keys in ascending order.
ascending(keys) ==
  [i \in 1..Len(keys) |->
     CHOOSE k \in {keys[j] : j \in 1..Len(keys)} :
       Cardinality({j \in 1..Len(keys) : keyBefore(keys[j], k)}) = i - 1]

\* C15 as stated: json::dump writes the members of every map in the order
\* in which their keys were inserted, whatever the keys are.
C15_InsertionOrderKept ==
  \A keys \in KeySeqs(MaxKeys), nested \in BOOLEAN :
    phase = "redumped" /\ text = MapText(keys, keys, nested)
      => unspaced(text2) = MapText(keys, keys, nested)

\* C15 as amended: json::dump writes the members of every map in ascending
\* order of their keys, the bytes compared as unsigned values, whatever the
\* order in which the keys were inserted.
C15_KeyOrderKept ==
  \A keys \in KeySeqs(MaxKeys), nested \in BOOLEAN :
    phase = "redumped" /\ text = MapText(keys, keys, nested)
      => unspaced(text2) = MapText(ascending(keys), keys, nested)

\* {"b":1,"\xC3\xA9":2,"B":3} under a key, written again in pretty mode
\* with B first and the key of high bytes last.
C15_Witness ==
  /\ phase = "redumped" /\ pretty
  /\ text = MapText(<<<<"b">>, <<"\\xC3", "\\xA9">>, <<"B">>>>,
              <<<<"b">>, <<"\\xC3", "\\xA9">>, <<"B">>>>, TRUE)
  /\ unspaced(text2) =
       <<"{", "\"", "k", "\"", ":", "{", "\"", "B", "\"", ":", "3", ",", "\"", "b", "\"", ":", "1", ",", "\"">> \o <<"\\xC3", "\\xA9">> \o <<"\"", ":", "2", "}", "}">>

\* The node is in one of the four states and holds nothing that belongs to
\* another state, and so do the nodes under it.
RECURSIVE ofOneState(_)
ofOneState(t) ==
  /\ t.state \in {"EMPTY", "VALUE", "ARRAY", "OBJECT"}
  /\ t.state # "VALUE" => t.value_node = NONE
  /\ t.state # "ARRAY" => t.array_node = <<>>
  /\ t.state # "OBJECT" => DOMAIN t.object_node = {}
  /\ \A i \in 1..Len(t.array_node) : ofOneState(t.array_node[i])
  /\ \A key \in DOMAIN t.object_node : ofOneState(t.object_node[key])

\* The state asValue, asArray or asObject is called for.
requested(name) ==
  CASE name = "asValue" -> "VALUE"
    [] name = "asArray" -> "ARRAY"
    [] name = "asObject" -> "OBJECT"

\* C16: after any sequence of member function calls every node is in one
\* state and holds the content of that state only; asValue, asArray or
\* asObject called on a node in another state leaves it in the requested state
\* with a NONE value and no children, and called on a node in that state
\* leaves the tree as it was.
C16_StateCoercions ==
  /\ ofOneState(tree)
  /\ call.name \in {"asValue", "asArray", "asObject"} =>
       LET was == nodeAt(call.before, call.at).target
           now == nodeAt(tree, call.at)
       IN  IF was.state = requested(call.name) THEN tree = call.before
           ELSE /\ now.found
                /\ now.target = [state |-> requested(call.name), value_node |-> NONE,
                                 array_node |-> <<>>, object_node |-> <<>>]

\* asArray called on the member a of {"a": "s"}, which leaves {"a": []}.
C16_Witness ==
  /\ call.name = "asArray" /\ call.at = <<Key(<<"a">>)>>
  /\ call.before = ObjectOf(<<"a">> :> ValueTree(StringNode(<<"s">>)))
  /\ tree = ObjectOf(<<"a">> :> ArrayOf(<<>>))

\* What a path leads to in a tree: the node reached when every step finds
\* an object holding its key or an array holding its index, nothing from
\* the first step that does not.
resolved(t, path) ==
  LET reached[i \in 0..Len(path)] ==
        IF i = 0 THEN Pointer(t)
        ELSE IF ~reached[i - 1].found THEN nullptr
        ELSE LET from == reached[i - 1].target
                 step == path[i]
             IN  IF step.isKey
                   THEN IF from.state = "OBJECT" /\ step.key \in DOMAIN from.object_node
                          THEN Pointer(from.object_node[step.key]) ELSE nullptr
                 ELSE IF from.state = "ARRAY" /\ step.index < Len(from.array_node)
                   THEN Pointer(from.array_node[step.index + 1]) ELSE nullptr
  IN  reached[Len(path)]

\* C17: subTree, getValue, getArray, getObject and value<typeTag> called with
\* a path return nothing from the first missing key, index out of range or
\* node of another state on; they return the node the path leads to, its
\* value, array or object when it is in that state, and its value when it is
\* a value of the type asked for; and they leave the tree as it was.
C17_PathLookup ==
  call.name \in {"subTree", "getValue", "getArray", "getObject", "value"} =>
    LET node == resolved(call.before, call.at)
        inState(state) == node.found /\ node.target.state = state
    IN  /\ tree = call.before
        /\ call.name = "subTree" => call.ret = node
        /\ call.name = "getValue" =>
             call.ret = IF inState("VALUE") THEN Pointer(node.target.value_node)
                        ELSE nullptr
        /\ call.name = "getArray" =>
             call.ret = IF inState("ARRAY") THEN Pointer(node.target.array_node)
                        ELSE nullptr
        /\ call.name = "getObject" =>
             call.ret = IF inState("OBJECT") THEN Pointer(node.target.object_node)
                        ELSE nullptr
        /\ call.name = "value" =>
             call.ret = IF inState("VALUE") /\ node.target.value_node.typeTag = call.arg
                          THEN Pointer(node.target.value_node)
                        ELSE nullptr

\* value<NUMBER>("b", 0) in {"a": true, "b": [1]} gives 1, and
\* value<STRING>("b", 0) would give nothing.
C17_Witness ==
  /\ call.name = "value" /\ call.at = <<Key(<<"b">>), Index(0)>> /\ call.arg = "NUMBER"
  /\ tree = ObjectOf(<<"a">> :> ValueTree(BoolNode(TRUE))
                     @@ <<"b">> :> ArrayOf(<<ValueTree(NumberNode(NumberValue(FALSE, 1, 0)))>>))
  /\ call.ret = Pointer(NumberNode(NumberValue(FALSE, 1, 0)))
  /\ treeValueAt(tree, "STRING", call.at) = nullptr

\* The parts of a text that holds one section header line: the place of
\* its brackets and of the end of its line, what stands between the
\* brackets, and what follows them on the line.
firstAt(txt, c, from) ==
  IF \E i \in from..Len(txt) : txt[i] = c
    THEN CHOOSE i \in from..Len(txt) : txt[i] = c /\ \A j \in from..(i - 1) : txt[j] # c
    ELSE Len(txt) + 1

headerName(txt) == SubSeq(txt, firstAt(txt, "[", 1) + 1, firstAt(txt, "]", 1) - 1)

headerAfter(txt) ==
  SubSeq(txt, firstAt(txt, "]", 1) + 1, firstAt(txt, "\n", firstAt(txt, "]", 1)) - 1)

headerLineBroken(txt) == firstAt(txt, "\n", firstAt(txt, "]", 1)) <= Len(txt)

\* Only spaces and tabs, and after them at most a comment, follow the
\* closing bracket.
onlyBlanksAndComment(after) ==
  \A i \in 1..Len(after) :
    \/ after[i] \in {" ", "\t"}
    \/ \E j \in 1..i : /\ after[j] \in {";", "#"}
                       /\ \A n \in 1..(j - 1) : after[n] \in {" ", "\t"}

\* C18: ini::parse of a text with a section header line succeeds when only
\* spaces, tabs and a comment follow the closing bracket on the line, and
\* fails when anything else does, the last line without a line break
\* included.
C18_NothingAfterHeader ==
  phase = "parsed" /\ headerName(text) \in HeaderNames
    => /\ out.returned
       /\ out.ok <=> onlyBlanksAndComment(headerAfter(text))
       /\ ~out.ok => out.tree = EmptyTree

\* The same for the header lines that a line break ends.
C18_NothingAfterHeaderInLine ==
  phase = "parsed" /\ headerName(text) \in HeaderNames /\ headerLineBroken(text)
    => /\ out.returned
       /\ out.ok <=> onlyBlanksAndComment(headerAfter(text))
       /\ ~out.ok => out.tree = EmptyTree

\* C19: ini::parse fails on a header without quotes that is empty or
\* blank; on [""] it succeeds, and the tree returned holds under the empty
\* key a subtree in state OBJECT, even when no entry follows the header.
C19_EmptyHeaders ==
  /\ phase = "parsed" /\ headerName(text) \in EmptyHeaders
       => out.returned /\ ~out.ok /\ out.tree = EmptyTree
  /\ phase = "parsed" /\ headerName(text) = <<"\"", "\"">>
     /\ onlyBlanksAndComment(headerAfter(text))
       => /\ out.returned /\ out.ok
          /\ out.tree.state = "OBJECT"
          /\ <<>> \in DOMAIN out.tree.object_node
          /\ out.tree.object_node[<<>>].state = "OBJECT"
          /\ text[Len(text)] \in {"]", " ", "\t", ";", "#", "\n"}
               => DOMAIN out.tree.object_node[<<>>].object_node = {}

\* [""] as the whole text gives {"": {}}.
C19_Witness ==
  /\ phase = "parsed" /\ text = <<"[", "\"", "\"", "]">>
  /\ out.returned /\ out.ok
  /\ out.tree = ObjectOf(<<>> :> ObjectOf(<<>>))

\* The tree is no map, or holds a list at its root, or a section of it
\* holds an entry that is a list or a section.
notAnIni(t) ==
  \/ t.state # "OBJECT"
  \/ \E key \in DOMAIN t.object_node :
       LET member == t.object_node[key]
       IN  \/ member.state = "ARRAY"
           \/ \E name \in DOMAIN member.object_node :
                member.object_node[name].state \in {"ARRAY", "OBJECT"}

\* C20: ini::dump returns the empty string for a tree that is no map, that
\* holds a list at its root, or a section of which holds a list or a
\* section, whatever it could write of the values before.
C20_UnsupportedDumpsEmpty ==
  phase = "text" /\ api = "ini" /\ notAnIni(tree) => text = <<>>

\* A section holding a section, after an entry and a section that can be
\* written: nothing is written.
C20_Witness ==
  /\ phase = "text" /\ api = "ini" /\ text = <<>>
  /\ tree.state = "OBJECT"
  /\ DOMAIN tree.object_node = {<<"g">>, <<"s">>, <<"t">>}
  /\ tree.object_node[<<"g">>].state = "VALUE"
  /\ tree.object_node[<<"t">>].object_node[<<"n">>].state = "OBJECT"

\* The messages a construct adds when what it holds failed, and the ones
\* parse itself adds last.
WrapperMessages ==
  {"Failed to parse object key.", "Failed to parse object value.",
   "Failed to parse array value.", "Failed to parse section header.",
   "Failed to parse key.", "Failed to parse value."}

TopLevelMessages ==
  {"Failed to parse JSON.", "Failed to parse section.", "Failed to parse entry."}

\* C21: a failed json::parse or ini::parse returns after it passed to the
\* error callback first the cause, with the position it was found at, and no
\* second cause after it; then one message of each construct around it, the
\* innermost first; and last the message of parse itself.
C21_CauseThenWrappers ==
  phase = "parsed" /\ ~out.ok =>
    /\ out.returned
    /\ Len(out.log) >= 2
    /\ out.log[1].positioned
    /\ out.log[1].msg \notin WrapperMessages \cup TopLevelMessages
    /\ \A i \in 2..(Len(out.log) - 1) :
         /\ out.log[i].msg \in WrapperMessages
         /\ out.log[i].pos.pos <= out.log[i - 1].pos.pos
    /\ out.log[Len(out.log)].msg \in TopLevelMessages
    /\ \A i \in 1..Len(out.log) : out.log[i].sev = "error"

\* The offsets at which a line of the text ends: after a "\n", after a
\* "\r" that no "\n" follows, and at the end of the text.
\* C22: json::parse never fails an assertion: every assert(pos.valid) of
\* the parsers and of getPositionMessage finds the cursor valid, whatever the
\* text, a text that ends inside an array, an object or a string included.
C22_CursorValidWhenUsed == phase = "parsed" /\ api = "json" => out.failedAt < 0

lineEnds(txt) ==
  {i \in 1..Len(txt) :
     \/ txt[i] = "\n"
     \/ txt[i] = "\r" /\ ~(i < Len(txt) /\ txt[i + 1] = "\n")
     \/ i = Len(txt)}

\* The k-th smallest of a set of numbers.
nth(set, k) == CHOOSE x \in set : Cardinality({y \in set : y < x}) = k - 1

C24_MovesStayInLine ==
  call.name \in {"moveToLineStart", "moveToLineEnd", "moveToLineEndExcludingBreaks"}
  /\ call.before.valid =>
    LET line == splitLines(text)[call.before.lineIdx + 1]
    IN  /\ call.ret /\ cursor.valid
        /\ cursor.lineIdx = call.before.lineIdx
        /\ line.pos <= cursor.pos /\ cursor.pos < line.pos + line.len
        /\ cursor.linePos = cursor.pos - line.pos

\* C25: a moveForward that succeeds leaves lineIdx one higher when the
\* cursor stood on the last character of its line, and as it was
\* otherwise; moveForward(pos, count) never lowers it.
C25_LineIndexAdvances ==
  /\ call.name = "moveForward" /\ call.ret =>
        cursor.lineIdx =
          IF call.before.linePos + 1 = splitLines(text)[call.before.lineIdx + 1].len
            THEN call.before.lineIdx + 1 ELSE call.before.lineIdx
  /\ call.name \in {"moveForward", "moveForward(count)"} =>
        cursor.lineIdx >= call.before.lineIdx

\* In "a\na" the cursor went from the line break to the a of the second line.
C25_Witness ==
  /\ text = <<"a", "\n", "a">> /\ call.name = "moveForward" /\ call.ret
  /\ call.before.pos = 1 /\ call.before.lineIdx = 0
  /\ cursor.pos = 2 /\ cursor.lineIdx = 1 /\ cursor.linePos = 0

\* C26: a section name, a key and a value written without quotes are
\* stored without the blanks that stand before ']', '=', the comment or
\* the end of the line, and with every blank inside them as written.
C26_UnquotedTokensTrimmed ==
  phase = "parsed" /\ api = "ini" /\ Len(doc.lines) = 1 =>
    LET line == doc.lines[1]
    IN  /\ out.returned /\ out.ok /\ out.log = <<>>
        /\ out.tree.state = "OBJECT"
        /\ DOMAIN out.tree.object_node = {line.key}
        /\ IF line.kind = "header"
             THEN out.tree.object_node[line.key] = ObjectOf(<<>>)
             ELSE out.tree.object_node[line.key] = ValueTree(StringNode(line.value))

\* "a a \t= a\ta  ;c" gave the key "a a" and the value "a<TAB>a".
C26_Witness ==
  /\ phase = "parsed" /\ out.ok
  /\ text = <<"a", " ", "a", " ">> \o <<"\t">> \o <<"=", " ", "a">> \o <<"\t">> \o <<"a", " ", " ", ";", "c">>
  /\ out.tree = ObjectOf(<<"a", " ", "a">> :> ValueTree(StringNode(<<"a", "\t", "a">>)))

\* C27: the characters _parseTrue, _parseFalse and _parseNull take with
\* ctx.slice, and the character a scanning step looks at, are characters of
\* the text: their offsets are below its length.
C27_ReadsInsideText ==
  call.name # "none" => \A offset \in call.arg : offset < Len(text)

LoopSteps ==
  {"moveForward", "moveForwardInLine", "moveToNextLine", "_parseWhitespace",
   "_parseComment", "_parseWhitespaceInLine", "_parseCommentInLine", "_parseLiteral"}

onlyBlankLines(txt) ==
  \A i \in 1..Len(txt) :
    \/ isspace(txt[i])
    \/ \E j \in 1..i : /\ txt[j] \in {";", "#"}
                        /\ \A k \in j..i : txt[k] \notin {"\n", "\r"}

isString(t) == t.state = "VALUE" /\ t.value_node.typeTag = "STRING"

\* EMPTY, or an object of strings and of objects of strings.
iniShaped(t) ==
  \/ t.state = "EMPTY"
  \/ /\ t.state = "OBJECT"
     /\ \A key \in DOMAIN t.object_node :
          LET member == t.object_node[key]
          IN  \/ isString(member)
              \/ /\ member.state = "OBJECT"
                 /\ \A name \in DOMAIN member.object_node :
                      isString(member.object_node[name])

\* C30: the tree ini::parse returns is EMPTY or an object whose members are
\* strings or objects of strings, and when the parse succeeded with a tree
\* that is not EMPTY, ini::dump writes it: it returns no empty text.
C30_ParsedIniShape ==
  phase = "parsed" /\ api = "ini" /\ out.returned =>
    /\ iniShaped(out.tree)
    /\ out.ok /\ out.tree.state # "EMPTY" => ini_dump(out.tree) # <<>>

\* "k=v\n[s]\nk=v" gave the entry k and the section s that holds k.
C30_Witness ==
  /\ phase = "parsed" /\ api = "ini" /\ out.ok
  /\ text = <<"k", "=", "v">> \o <<"\n">> \o <<"[", "s", "]">> \o <<"\n">> \o <<"k", "=", "v">>
  /\ out.tree = ObjectOf(<<"k">> :> ValueTree(StringNode(<<"v">>))
                          @@ <<"s">> :> ObjectOf(<<"k">> :> ValueTree(StringNode(<<"v">>))))
  /\ ini_dump(out.tree) # <<>>
====
